---- MODULE Spec2Model ----
(***************************************************************************)
(* Track resolution engine of spindle: the normalizer, the library         *)
(* indexer and the seven-strategy resolution cascade of                    *)
(* match_playlist_to_library.py.                                           *)
(*                                                                         *)
(* Text is modelled as TLA+ strings, processed character by character the  *)
(* way the regular expressions of the source process it.  The strings the  *)
(* model draws contain no line terminator, so the regex "." matches every  *)
(* character of them and "$" matches only at the end of the string.        *)
(***************************************************************************)
EXTENDS Integers, Sequences, FiniteSets, TLC

(***************************************************************************)
(* Characters                                                              *)
(***************************************************************************)
\* the characters of s at positions a..b, clipped to the text like the
\* Python slice s[a-1:b]
Slice(s, a, b) ==
    LET lo == IF a < 1 THEN 1 ELSE a
        hi == IF b > Len(s) THEN Len(s) ELSE b
    IN  IF lo > hi THEN "" ELSE SubSeq(s, lo, hi)

\* the character at position i, "" past the end of the text
Char(s, i) == Slice(s, i, i)

\* the text from position i to the end, s[i-1:] in Python
From(s, i) == Slice(s, i, Len(s))

\* regex \s and str.strip()/str.split() whitespace
IsSpace(c) == c \in {" ", "\t"}

\* regex \d
IsDigit(c) == c \in {"0", "1", "2", "3", "4", "5", "6", "7", "8", "9"}

UpperLetters == "ABCDEFGHIJKLMNOPQRSTUVWXYZ"

LowerLetters == "abcdefghijklmnopqrstuvwxyz"

\* regex class a-z
LowerLetterSet == {Char(LowerLetters, k) : k \in 1..26}

IsLowerLetter(c) == c \in LowerLetterSet

\* str.lower() on the letters A-Z
ToLower ==
    [c \in {Char(UpperLetters, k) : k \in 1..26} |->
        Char(LowerLetters, CHOOSE k \in 1..26 : Char(UpperLetters, k) = c)]

\* str.startswith
StartsWith(s, p) == Len(p) <= Len(s) /\ Slice(s, 1, Len(p)) = p

\* number of whitespace characters at the head of From(s, i): greedy \s*
RECURSIVE SpaceRun(_, _)
SpaceRun(s, i) ==
    IF i <= Len(s) /\ IsSpace(Char(s, i)) THEN 1 + SpaceRun(s, i + 1) ELSE 0

\* number of digits at the head of From(s, i): greedy \d+
RECURSIVE DigitRun(_, _)
DigitRun(s, i) ==
    IF i <= Len(s) /\ IsDigit(Char(s, i)) THEN 1 + DigitRun(s, i + 1) ELSE 0

\* str.strip()
RECURSIVE LStrip(_)
LStrip(s) == IF s # "" /\ IsSpace(Head(s)) THEN LStrip(Tail(s)) ELSE s

RECURSIVE RStrip(_)
RStrip(s) ==
    IF s # "" /\ IsSpace(Char(s, Len(s)))
    THEN RStrip(Slice(s, 1, Len(s) - 1)) ELSE s

Strip(s) == LStrip(RStrip(s))

\* smallest position in 1..Len(s)+1 satisfying P, or 0: where the regex
\* engine's leftmost match starts
FirstPos(s, P(_)) ==
    LET from[i \in 1..(Len(s) + 1)] ==
            IF P(i) THEN i ELSE IF i = Len(s) + 1 THEN 0 ELSE from[i + 1]
    IN  from[1]

\* str.lower(), one character
LowerChar(c) == IF c \in DOMAIN ToLower THEN ToLower[c] ELSE c

RECURSIVE Lower(_)
Lower(s) == IF s = "" THEN "" ELSE LowerChar(Head(s)) \o Lower(Tail(s))

\* Python's None, for a field the caller left out: a value that is none of
\* the texts the model draws
None == "<None>"

(***************************************************************************)
(* Paths                                                                   *)
(***************************************************************************)
AUDIO_EXTS ==
    {".mp3", ".m4a", ".flac", ".wav", ".aiff", ".aif", ".ogg", ".opus", ".alac"}

\* str.rfind('.'), as a position counted from 1, or 0
RECURSIVE LastDot(_, _)
LastDot(name, i) ==
    IF i < 1 THEN 0
    ELSE IF Char(name, i) = "." THEN i ELSE LastDot(name, i - 1)

\* PurePath.suffix
Suffix(name) ==
    LET d == LastDot(name, Len(name))
    IN  IF 1 < d /\ d < Len(name) THEN From(name, d) ELSE ""

\* PurePath.stem
Stem(name) ==
    LET d == LastDot(name, Len(name))
    IN  IF 1 < d /\ d < Len(name) THEN Slice(name, 1, d - 1) ELSE name

\* The resolved library root is <base>/Music/Library (the default
\* library_subpath); a path below it is the tuple of its components
\* relative to the root.
RootName == "Library"

RootParentName == "Music"

\* f.name
FileName(path) == path[Len(path)]

\* f.parent.name
AlbumDirName(path) ==
    IF Len(path) >= 2 THEN path[Len(path) - 1] ELSE RootName

\* f.parent.parent.name
ArtistDirName(path) ==
    IF Len(path) >= 3 THEN path[Len(path) - 2]
    ELSE IF Len(path) = 2 THEN RootName ELSE RootParentName

\* variant: "if p.is_file()", without the test of the suffix
IsAudioFileAnySuffix(entry) == entry.is_file

\* the test of _iter_audio_files on one entry of library_root.rglob("*")
IsAudioFile(entry) ==
    entry.is_file /\ Lower(Suffix(FileName(entry.path))) \in AUDIO_EXTS

(***************************************************************************)
(* Bounds, and the libraries and playlists the model draws                 *)
(***************************************************************************)
\* entries library_root.rglob("*") yields in one run, at most
MaxFiles == 2

\* records in data["tracks"], at most
MaxTracks == 2

\* max_candidates is drawn from 1..MaxCandidates
MaxCandidates == 2

File(path) == [path |-> path, is_file |-> TRUE]

Dir(path) == [path |-> path, is_file |-> FALSE]

Track(artist, release, song) ==
    [artist |-> artist, release |-> release, song |-> song]

\* Each scenario is a set of directory entries the walk may yield (in any
\* order, any MaxFiles of them) and a set of track records the playlist
\* may hold (in any order, with repetition).
Scenarios ==
    << \* aliases: track-number prefix, album suffix, parenthetical
       [entries |-> {File(<<"Artist", "Album", "Song.mp3">>),
                     File(<<"Artist", "Album - EP", "01. Song.flac">>),
                     File(<<"Artist", "Album", "Song (Remix).mp3">>),
                     File(<<"Artist", "Album", "cover.txt">>)},
        tracks |-> {Track("Artist", "Album", "Song"),
                    Track("Artist", "Album - EP", "01. Song"),
                    Track("Artist", "Album", "Remix"),
                    Track("Artist", "Other", "Song Two")}],
       \* compilation folders and tracks with fields left out
       [entries |-> {File(<<"Various Artists", "Album", "Song.mp3">>),
                     File(<<"!!!", "Album", "Tune.MP3">>),
                     File(<<"Artist", "Album", "Song.mp3">>),
                     Dir(<<"Artist", "Album">>)},
        tracks |-> {Track(None, "Album", "Song"),
                    Track("", None, "Tune"),
                    Track("Artist", None, None),
                    Track("Some Artist", "Album", "Song")}],
       \* files directly below the root or one directory below it
       [entries |-> {File(<<"Track.mp3">>),
                     File(<<"Artist", "Loose.mp3">>),
                     File(<<"Artist", "Album", "Song.mp3">>),
                     File(<<"Artist", "Album", "Song Two.ogg">>)},
        tracks |-> {Track("Music", "Library", "Track"),
                    Track("Library", "Artist", "Loose"),
                    Track("Artist", "Album", "Song"),
                    Track("Artist", "Album", "Two Song Three")}],
       \* two compilation folders
       [entries |-> {File(<<"Various Artists", "Other", "Song.mp3">>),
                     File(<<"VA", "Album", "Song.mp3">>),
                     File(<<"Soundtrack", "Album", "Tune.mp3">>)},
        tracks |-> {Track("Some Artist", "Album", "Song"),
                    Track("Some Artist", "Album", "Tune")}],
       \* album suffixes and years, on the folder or on the track
       [entries |-> {File(<<"Artist", "Hits", "02. Song Title.flac">>),
                     File(<<"Artist", "Live - Single", "Tune.mp3">>),
                     File(<<"Artist", "Gold (1999)", "Air.mp3">>)},
        tracks |-> {Track("Artist", "Hits - EP", "02. Song Title"),
                    Track("Artist", "Live", "Tune"),
                    Track("Artist", "Gold", "Air")}],
       \* track-number prefixes and near misses
       [entries |-> {File(<<"Artist", "Hits", "02. Song Title.flac">>),
                     File(<<"Artist", "Hits", "Re-Hash.mp3">>),
                     File(<<"Artist", "Hits", "Live.mp3">>)},
        tracks |-> {Track("Artist", "Hits", "Song Title"),
                    Track("Artist", "Hits [2001]", "02. Song Title"),
                    Track("Artist", "Hits", "Rehash Live")}],
       \* titles that share some of their words with a file
       [entries |-> {File(<<"Artist", "Album", "Song One.mp3">>),
                     File(<<"Artist", "Album", "Big Red Car.mp3">>)},
        tracks |-> {Track("Artist", "Album", "Song Two"),
                    Track("Artist", "Other", "Big Red Bus Stop"),
                    Track("Artist", "Other", "Song")}],
       \* a file name that starts with the letters of the artist name
       [entries |-> {File(<<"Air", "Album", "Airplane Mode.mp3">>),
                     File(<<"Air", "Album", "Plane Mode.mp3">>)},
        tracks |-> {Track("Air", "Album", "Plane Mode"),
                    Track("Air", "Album", "Mode")}] >>

\* the texts of the scenarios: directory names, file stems, track fields,
\* and the compilation aliases
EntryTexts(entry) ==
    {entry.path[n] : n \in 1..Len(entry.path)} \cup {Stem(FileName(entry.path))}

TrackTexts(track) == {track.artist, track.release, track.song}

various_artists_names ==
    <<"various artists", "various", "va", "compilation", "compilations",
      "soundtrack", "soundtracks", "ost">>

ScenarioTexts ==
    UNION {UNION {EntryTexts(e) : e \in Scenarios[n].entries}
           \cup UNION {TrackTexts(t) : t \in Scenarios[n].tracks}
           : n \in DOMAIN Scenarios}
    \cup {various_artists_names[n] : n \in DOMAIN various_artists_names}
    \cup {RootName, RootParentName, ""}

(***************************************************************************)
(* _norm                                                                   *)
(***************************************************************************)
\* unicodedata.normalize("NFKD", s), one character: an accented Latin
\* letter decomposes into its base letter and a combining mark (the
\* combining acute accent U+0301 is written with the spacing accent U+00B4,
\* like it neither a letter, a digit nor whitespace).  Every ASCII character
\* is unchanged.
CombiningAcute == "´"

Decompose(c) ==
    CASE c = "É" -> "E" \o CombiningAcute
      [] c = "é" -> "e" \o CombiningAcute
      [] OTHER -> c

RECURSIVE NFKD(_)
NFKD(s) == IF s = "" THEN "" ELSE Decompose(Head(s)) \o NFKD(Tail(s))

\* position of the first character c at or after position i, or 0
RECURSIVE FindChar(_, _, _)
FindChar(s, c, i) ==
    IF i > Len(s) THEN 0
    ELSE IF Char(s, i) = c THEN i ELSE FindChar(s, c, i + 1)

\* the regexes \s*\(feat\.?.*?\) and \s*\[feat\.?.*?\]: the last position of
\* the match that starts at position i, or 0 when none starts there
FeatGroupEnd(s, i, open, close) ==
    LET j == i + SpaceRun(s, i)
    IN  IF Slice(s, j, j + 4) = open \o "feat"
        THEN FindChar(s, close, j + 5)
        ELSE 0

\* re.sub of one of those two regexes by ""
RECURSIVE StripFeatGroups(_, _, _)
StripFeatGroups(s, open, close) ==
    LET CutAt(start) ==
            IF start = 0 THEN s
            ELSE Slice(s, 1, start - 1)
                 \o StripFeatGroups(
                        From(s, FeatGroupEnd(s, start, open, close) + 1),
                        open, close)
    IN  CutAt(FirstPos(s, LAMBDA i : FeatGroupEnd(s, i, open, close) > 0))

\* the regex \s*feat\.?\s+.*$ matches from position i
FeatTailAt(s, i) ==
    LET j == i + SpaceRun(s, i)
        k == j + 4
    IN  /\ Slice(s, j, j + 3) = "feat"
        /\ \/ SpaceRun(s, k) >= 1
           \/ Char(s, k) = "." /\ SpaceRun(s, k + 1) >= 1

\* re.sub(pattern, "", s) for a pattern anchored at the end of the text,
\* whose leftmost match starts at position start (0: no match)
CutFrom(s, start) == IF start = 0 THEN s ELSE Slice(s, 1, start - 1)

\* re.sub(r"\s*feat\.?\s+.*$", "", s)
StripFeatTail(s) == CutFrom(s, FirstPos(s, LAMBDA i : FeatTailAt(s, i)))

\* s.replace("&", "and")
RECURSIVE ReplaceAmp(_)
ReplaceAmp(s) ==
    IF s = "" THEN ""
    ELSE (IF Head(s) = "&" THEN "and" ELSE Head(s)) \o ReplaceAmp(Tail(s))

\* re.sub(r"[^a-z0-9\s]", "", s)
RECURSIVE DropPunct(_)
DropPunct(s) ==
    IF s = "" THEN ""
    ELSE (IF IsLowerLetter(Head(s)) \/ IsDigit(Head(s)) \/ IsSpace(Head(s))
          THEN Head(s) ELSE "") \o DropPunct(Tail(s))

\* re.sub(r"\s+", " ", s)
RECURSIVE CollapseSpace(_)
CollapseSpace(s) ==
    IF s = "" THEN ""
    ELSE IF IsSpace(Head(s))
         THEN " " \o CollapseSpace(From(s, 1 + SpaceRun(s, 1)))
         ELSE Head(s) \o CollapseSpace(Tail(s))

NormText(s) ==
    IF s = None THEN ""
    ELSE Strip(CollapseSpace(DropPunct(ReplaceAmp(StripFeatTail(
             StripFeatGroups(StripFeatGroups(Lower(NFKD(s)), "(", ")"),
                             "[", "]"))))))

\* _norm is a pure function: its values on the texts of the scenarios are
\* computed once and looked up afterwards
NormOfText == [s \in ScenarioTexts |-> NormText(s)]

Norm(s) == IF s \in ScenarioTexts THEN NormOfText[s] ELSE NormText(s)

(***************************************************************************)
(* _normalize_album_name                                                   *)
(***************************************************************************)
AlbumSuffixWords == {"single", "ep", "album", "lp"}

\* the regex \s*-\s*(single|ep|album|lp)\s*$ (IGNORECASE) matches from i
AlbumSuffixAt(s, i) ==
    LET j == i + SpaceRun(s, i)
        k == j + 1 + SpaceRun(s, j + 1)
    IN  /\ Char(s, j) = "-"
        /\ \E w \in AlbumSuffixWords :
              /\ Lower(Slice(s, k, k + Len(w) - 1)) = w
              /\ k + Len(w) + SpaceRun(s, k + Len(w)) = Len(s) + 1

\* the regex \s*[\[\(]\d{4}[\]\)]\s*$ matches from i
AlbumYearAt(s, i) ==
    LET j == i + SpaceRun(s, i)
    IN  /\ Char(s, j) \in {"[", "("}
        /\ \A k \in (j + 1)..(j + 4) : IsDigit(Char(s, k))
        /\ Char(s, j + 5) \in {"]", ")"}
        /\ j + 6 + SpaceRun(s, j + 6) = Len(s) + 1

\* variant: neither the suffix nor the year is removed
NormalizeAlbumNameUnstripped(album) ==
    IF album = None \/ album = "" THEN "" ELSE Strip(Norm(album))

NormalizeAlbumName(album) ==
    IF album = None \/ album = "" THEN ""
    ELSE LET CutSuffix(a) ==
                 CutFrom(a, FirstPos(a, LAMBDA i : AlbumSuffixAt(a, i)))
             CutYear(a) ==
                 CutFrom(a, FirstPos(a, LAMBDA i : AlbumYearAt(a, i)))
         IN  Strip(Norm(CutYear(CutSuffix(album))))

(***************************************************************************)
(* _extract_track_name_from_filename                                       *)
(***************************************************************************)
\* variant: the regex ^\d+\s+, which misses the dot after the number
StripTrackNumberDotless(stem) ==
    LET d == DigitRun(stem, 1)
        w == SpaceRun(stem, d + 1)
    IN  IF d >= 1 /\ w >= 1 THEN From(stem, d + 1 + w) ELSE stem

\* re.sub(r'^\d+\.?\s+', '', filename_stem)
StripTrackNumber(stem) ==
    LET d == DigitRun(stem, 1)
        k == IF Char(stem, d + 1) = "." THEN d + 2 ELSE d + 1
        w == SpaceRun(stem, k)
    IN  IF d >= 1 /\ w >= 1 THEN From(stem, k + w) ELSE stem

\* re.sub(r'^[-\s]+', '', remaining)
RECURSIVE StripLeadingSeparators(_)
StripLeadingSeparators(s) ==
    IF s # "" /\ (Head(s) = "-" \/ IsSpace(Head(s)))
    THEN StripLeadingSeparators(Tail(s)) ELSE s

\* the separators of \s*-\s*|\s*–\s*|\s*—\s*; the en dash and the em dash
\* are not among the characters the model draws
IsDash(c) == c = "-"

\* re.split(r'\s*-\s*|\s*–\s*|\s*—\s*', s)
RECURSIVE SplitOnDash(_)
SplitOnDash(s) ==
    LET SplitAt(start, dash) ==
            IF start = 0 THEN <<s>>
            ELSE <<Slice(s, 1, start - 1)>>
                 \o SplitOnDash(From(s, dash + 1 + SpaceRun(s, dash + 1)))
        Dashed(start) == SplitAt(start, start + SpaceRun(s, start))
    IN  Dashed(FirstPos(s, LAMBDA i : IsDash(Char(s, i + SpaceRun(s, i)))))

\* ' '.join(parts)
RECURSIVE JoinSpace(_)
JoinSpace(parts) ==
    IF Len(parts) = 0 THEN ""
    ELSE IF Len(parts) = 1 THEN parts[1]
    ELSE parts[1] \o " " \o JoinSpace(Tail(parts))

ExtractTrackNameFromFilename(filename_stem, artist) ==
    LET Pick(norm_artist, norm_stem, remaining, parts) ==
            IF StartsWith(norm_stem, norm_artist) /\ remaining # ""
            THEN remaining
            ELSE IF Len(parts) > 1
                 THEN IF Norm(parts[1]) = norm_artist
                      THEN Norm(JoinSpace(Tail(parts)))
                      ELSE Norm(parts[Len(parts)])
                 ELSE norm_stem
        Remaining(norm_artist, norm_stem) ==
            StripLeadingSeparators(Strip(From(norm_stem, Len(norm_artist) + 1)))
        Cleaned(norm_artist, cleaned_stem, norm_stem) ==
            Pick(norm_artist, norm_stem, Remaining(norm_artist, norm_stem),
                 SplitOnDash(cleaned_stem))
        Stemmed(norm_artist, cleaned_stem) ==
            Cleaned(norm_artist, cleaned_stem, Norm(cleaned_stem))
    IN  Stemmed(Norm(artist), StripTrackNumber(filename_stem))

(***************************************************************************)
(* Parenthetical stripping, token sets                                     *)
(***************************************************************************)
\* the regexes \s*\([^)]*\)\s* and \s*\[[^\]]*\]\s*: the position of the
\* closing character of the match that starts at i, or 0
GroupCloseAt(s, i, open, close) ==
    LET j == i + SpaceRun(s, i)
    IN  IF Char(s, j) = open THEN FindChar(s, close, j + 1) ELSE 0

\* re.sub of one of those two regexes by ' '
RECURSIVE ReplaceGroups(_, _, _)
ReplaceGroups(s, open, close) ==
    LET ReplaceAt(start, end) ==
            IF start = 0 THEN s
            ELSE Slice(s, 1, start - 1) \o " "
                 \o ReplaceGroups(From(s, end + 1 + SpaceRun(s, end + 1)),
                                  open, close)
        Matched(start) == ReplaceAt(start, GroupCloseAt(s, start, open, close))
    IN  Matched(FirstPos(s, LAMBDA i : GroupCloseAt(s, i, open, close) > 0))

\* variant: without the statement that strips (...)
StripParentheticalsBracketsOnly(s) == Strip(ReplaceGroups(s, "[", "]"))

\* the three statements that strip (...) and [...] from a stem or a title
StripParentheticals(s) ==
    Strip(ReplaceGroups(ReplaceGroups(s, "(", ")"), "[", "]"))

\* number of non-whitespace characters at the head of From(s, i)
RECURSIVE WordRun(_, _)
WordRun(s, i) ==
    IF i <= Len(s) /\ ~IsSpace(Char(s, i)) THEN 1 + WordRun(s, i + 1) ELSE 0

\* set(s.split())
RECURSIVE Tokens(_)
Tokens(s) ==
    LET SplitWord(t, n) == {Slice(t, 1, n)} \cup Tokens(From(t, n + 1))
        Split(t) == IF t = "" THEN {} ELSE SplitWord(t, WordRun(t, 1))
    IN  Split(LStrip(s))

(***************************************************************************)
(* The index: a Python dict, which keeps its keys in insertion order, as   *)
(* the sequence of its (key, paths) items                                  *)
(***************************************************************************)
HasKey(idx, key) == \E n \in 1..Len(idx) : idx[n].key = key

\* index.get(key, [])
Get(idx, key) ==
    IF HasKey(idx, key)
    THEN idx[CHOOSE n \in 1..Len(idx) : idx[n].key = key].paths
    ELSE <<>>

\* variant: index[key] = [f], which forgets the paths already under the key
SetDefaultAppendOverwrite(idx, key, f) ==
    IF HasKey(idx, key)
    THEN [n \in 1..Len(idx) |->
             IF idx[n].key = key THEN [key |-> key, paths |-> <<f>>]
             ELSE idx[n]]
    ELSE Append(idx, [key |-> key, paths |-> <<f>>])

\* index.setdefault(key, []).append(f)
SetDefaultAppend(idx, key, f) ==
    IF HasKey(idx, key)
    THEN [n \in 1..Len(idx) |->
             IF idx[n].key = key
             THEN [key |-> key, paths |-> Append(idx[n].paths, f)]
             ELSE idx[n]]
    ELSE Append(idx, [key |-> key, paths |-> <<f>>])

\* index.setdefault(key, []).append(f) under a condition
AppendIf(cond, idx, key, f) ==
    IF cond THEN SetDefaultAppend(idx, key, f) ELSE idx

\* the body of the loop of _build_index for one audio file f
IndexFile(idx, f) ==
    LET Register(artist, track_stem, norm_artist, norm_album, norm_track,
                 norm_album_flexible, extracted_track, track_no_parens,
                 norm_track_no_parens, extracted_no_parens) ==
            LET ext == extracted_track # norm_track
                flex == norm_album_flexible # norm_album
                par == /\ track_no_parens # "" /\ track_no_parens # track_stem
                       /\ norm_track_no_parens # norm_track
                parext == par /\ extracted_no_parens # norm_track_no_parens
                \* primary key
                i0 == SetDefaultAppend(idx, <<norm_artist, norm_album, norm_track>>, f)
                \* alternative key 1
                i1 == AppendIf(ext, i0,
                               <<norm_artist, norm_album, extracted_track>>, f)
                i1b == AppendIf(ext /\ flex, i1,
                                <<norm_artist, norm_album_flexible, extracted_track>>, f)
                \* alternative key 2
                i2 == AppendIf(flex, i1b,
                               <<norm_artist, norm_album_flexible, norm_track>>, f)
                i2b == AppendIf(flex /\ ext, i2,
                                <<norm_artist, norm_album_flexible, extracted_track>>, f)
                \* alternative key 3
                i3 == AppendIf(par, i2b,
                               <<norm_artist, norm_album, norm_track_no_parens>>, f)
                i3b == AppendIf(par /\ flex, i3,
                                <<norm_artist, norm_album_flexible, norm_track_no_parens>>, f)
                i3c == AppendIf(parext, i3b,
                                <<norm_artist, norm_album, extracted_no_parens>>, f)
                i3d == AppendIf(parext /\ flex, i3c,
                                <<norm_artist, norm_album_flexible, extracted_no_parens>>, f)
            IN  i3d
        Stripped(artist, album, track_stem, track_no_parens) ==
            Register(artist, track_stem, Norm(artist), Norm(album),
                     Norm(track_stem), NormalizeAlbumName(album),
                     ExtractTrackNameFromFilename(track_stem, artist),
                     track_no_parens, Norm(track_no_parens),
                     ExtractTrackNameFromFilename(track_no_parens, artist))
        Named(artist, album, track_stem) ==
            Stripped(artist, album, track_stem, StripParentheticals(track_stem))
    IN  Named(ArtistDirName(f), AlbumDirName(f), Stem(FileName(f)))

(***************************************************************************)
(* The resolution cascade of match_playlist_to_library                     *)
(***************************************************************************)
\* track.get(field) or ""
OrEmpty(v) == IF v = None THEN "" ELSE v

\* the strings the loop body derives from one track before the strategies
Desired(track) ==
    LET artist == OrEmpty(track.artist)
        album == OrEmpty(track.release)
        title == OrEmpty(track.song)
    IN  [artist |-> artist, album |-> album, title |-> title,
         norm_artist |-> Norm(artist),
         norm_album |-> Norm(album),
         norm_album_flexible |-> NormalizeAlbumName(album),
         norm_title |-> Norm(title),
         extracted_playlist_title |-> ExtractTrackNameFromFilename(title, artist)]

\* for (a, al, t), paths in index.items(): if Accept: matches.extend(paths)
ExtendWhere(idx, Accept(_)) ==
    LET acc[n \in 0..Len(idx)] ==
            IF n = 0 THEN <<>>
            ELSE acc[n - 1] \o (IF Accept(idx[n].key) THEN idx[n].paths ELSE <<>>)
    IN  acc[Len(idx)]

Min(a, b) == IF a <= b THEN a ELSE b

\* title_tokens.issubset(track_tokens)
TitleInTrack(title_tokens, track_tokens) == title_tokens \subseteq track_tokens

\* track_tokens.issubset(title_tokens) and len(track_tokens) >= 2
TrackInTitle(title_tokens, track_tokens) ==
    track_tokens \subseteq title_tokens /\ Cardinality(track_tokens) >= 2

\* the "significant overlap" branch
TokenOverlap(title_tokens, track_tokens) ==
    /\ title_tokens # {} /\ track_tokens # {}
    /\ LET overlap == Cardinality(title_tokens \cap track_tokens)
           min_len == Min(Cardinality(title_tokens), Cardinality(track_tokens))
       IN  min_len >= 2 /\ overlap >= (min_len * 2) \div 3

\* Strategy 1: exact match (artist, album, track)
Strategy1(d, idx) == Get(idx, <<d.norm_artist, d.norm_album, d.norm_title>>)

\* Strategy 2: with normalized album name
Strategy2(d, idx) ==
    IF d.norm_album_flexible # d.norm_album
    THEN Get(idx, <<d.norm_artist, d.norm_album_flexible, d.norm_title>>)
    ELSE <<>>

\* Strategy 3, one pass of "for alt_album in [norm_album, norm_album_flexible]"
Strategy3Album(d, idx, alt_album) ==
    IF alt_album = "" THEN <<>>
    ELSE Get(idx, <<d.norm_artist, alt_album, d.norm_title>>)
         \o (IF d.extracted_playlist_title # d.norm_title
             THEN Get(idx, <<d.norm_artist, alt_album, d.extracted_playlist_title>>)
             ELSE <<>>)

\* Strategy 3: extracted track name
Strategy3(d, idx) ==
    Strategy3Album(d, idx, d.norm_album)
    \o Strategy3Album(d, idx, d.norm_album_flexible)

\* Strategy 4: token-based matching within the same artist and album
Strategy4(d, idx) ==
    LET TokenMatch(title_tokens, track_tokens) ==
            \/ TitleInTrack(title_tokens, track_tokens)
            \/ TrackInTitle(title_tokens, track_tokens)
            \/ TokenOverlap(title_tokens, track_tokens)
        Accept(title_tokens, key) ==
            /\ key[1] = d.norm_artist
            /\ \/ key[2] = d.norm_album
               \/ d.norm_album_flexible # "" /\ key[2] = d.norm_album_flexible
            /\ TokenMatch(title_tokens, Tokens(key[3]))
        Scan(title_tokens) ==
            IF title_tokens # {}
            THEN ExtendWhere(idx, LAMBDA key : Accept(title_tokens, key))
            ELSE <<>>
    IN  Scan(Tokens(d.norm_title))

\* Strategy 5, one pass of the loop over the album variants
Strategy5Album(d, idx, alt_album, norm_title_no_parens) ==
    IF alt_album = "" THEN <<>>
    ELSE Get(idx, <<d.norm_artist, alt_album, norm_title_no_parens>>)

\* Strategy 5: title without parenthetical content
Strategy5(d, idx) ==
    LET Lookup(norm_title_no_parens) ==
            Strategy5Album(d, idx, d.norm_album, norm_title_no_parens)
            \o Strategy5Album(d, idx, d.norm_album_flexible, norm_title_no_parens)
        Stripped(title_no_parens) ==
            IF title_no_parens # "" /\ title_no_parens # d.title
            THEN Lookup(Norm(title_no_parens))
            ELSE <<>>
    IN  Stripped(StripParentheticals(d.title))

\* variant: the token stage of strategy 6 without its overlap branch
TokenMatch6NoOverlap(title_tokens, track_tokens) ==
    \/ /\ title_tokens # {} /\ title_tokens \subseteq track_tokens
       /\ Cardinality(title_tokens) >= 2
    \/ track_tokens \subseteq title_tokens /\ Cardinality(track_tokens) >= 2

\* the token stage of strategies 6 and 7, for one index key
TokenMatch6(title_tokens, track_tokens) ==
    \/ /\ title_tokens # {} /\ title_tokens \subseteq track_tokens
       /\ Cardinality(title_tokens) >= 2
    \/ TrackInTitle(title_tokens, track_tokens)
    \/ TokenOverlap(title_tokens, track_tokens)

\* the exact stage, and the token stage when the exact stage finds nothing
ExactElseFuzzy(exact, idx, Fuzzy(_)) ==
    IF exact # <<>> THEN exact ELSE ExtendWhere(idx, Fuzzy)

TokenMatch7(title_tokens, track_tokens) ==
    \/ /\ title_tokens # {} /\ title_tokens \subseteq track_tokens
       /\ Cardinality(title_tokens) >= 2
    \/ TrackInTitle(title_tokens, track_tokens)

\* variant: strategy 6 without "a == norm_artist"
Strategy6AnyArtist(d, idx) ==
    LET Exact(key) == key[3] = d.norm_title
        Fuzzy(title_tokens, key) == TokenMatch6(title_tokens, Tokens(key[3]))
        Scan(title_tokens) ==
            ExactElseFuzzy(ExtendWhere(idx, Exact), idx,
                           LAMBDA key : Fuzzy(title_tokens, key))
    IN  Scan(Tokens(d.norm_title))

\* Strategy 6: artist + track only (ignore album)
Strategy6(d, idx) ==
    LET Exact(key) == key[1] = d.norm_artist /\ key[3] = d.norm_title
        Fuzzy(title_tokens, key) ==
            /\ key[1] = d.norm_artist
            /\ TokenMatch6(title_tokens, Tokens(key[3]))
        Scan(title_tokens) ==
            ExactElseFuzzy(ExtendWhere(idx, Exact), idx,
                           LAMBDA key : Fuzzy(title_tokens, key))
    IN  Scan(Tokens(d.norm_title))

\* Strategy 7, the album-constrained lookups for one album variant
Strategy7Album(d, idx, norm_va, alt_album) ==
    IF alt_album = "" THEN <<>>
    ELSE Get(idx, <<norm_va, alt_album, d.norm_title>>)
         \o (IF d.extracted_playlist_title # d.norm_title
             THEN Get(idx, <<norm_va, alt_album, d.extracted_playlist_title>>)
             ELSE <<>>)

\* Strategy 7, the body of "for va_name in various_artists_names"
Strategy7Alias(d, idx, matches, va_name) ==
    LET Exact(norm_va, key) == key[1] = norm_va /\ key[3] = d.norm_title
        Fuzzy(norm_va, title_tokens, key) ==
            /\ key[1] = norm_va
            /\ TokenMatch7(title_tokens, Tokens(key[3]))
        ByAlbum(norm_va) ==
            matches \o Strategy7Album(d, idx, norm_va, d.norm_album)
                    \o Strategy7Album(d, idx, norm_va, d.norm_album_flexible)
        ByTokens(norm_va, title_tokens) ==
            ExactElseFuzzy(
                ExtendWhere(idx, LAMBDA key : Exact(norm_va, key)), idx,
                LAMBDA key : Fuzzy(norm_va, title_tokens, key))
        AnyAlbum(norm_va, m1) ==
            IF m1 = <<>> THEN ByTokens(norm_va, Tokens(d.norm_title)) ELSE m1
        Alias(norm_va) == AnyAlbum(norm_va, ByAlbum(norm_va))
    IN  Alias(Norm(va_name))

\* the loop over the aliases, left by break at the first alias with a match
RECURSIVE Strategy7Loop(_, _, _, _)
Strategy7Loop(d, idx, matches, names) ==
    IF names = <<>> THEN matches
    ELSE LET Break(m) ==
                 IF m # <<>> THEN m ELSE Strategy7Loop(d, idx, m, Tail(names))
         IN  Break(Strategy7Alias(d, idx, matches, Head(names)))

\* variant: the loop over the aliases without its break
RECURSIVE Strategy7LoopNoBreak(_, _, _, _)
Strategy7LoopNoBreak(d, idx, matches, names) ==
    IF names = <<>> THEN matches
    ELSE Strategy7LoopNoBreak(d, idx,
                              Strategy7Alias(d, idx, matches, Head(names)),
                              Tail(names))

Strategy7NoBreak(d, idx) ==
    Strategy7LoopNoBreak(d, idx, <<>>, various_artists_names)

\* variant: only the first alias is tried
Strategy7FirstAlias(d, idx) ==
    Strategy7Alias(d, idx, <<>>, Head(various_artists_names))

\* Strategy 7: Various Artists / compilation folders
Strategy7(d, idx) == Strategy7Loop(d, idx, <<>>, various_artists_names)

\* what strategy k extends matches with
StrategyYield(k, d, idx) ==
    CASE k = 1 -> Strategy1(d, idx)
      [] k = 2 -> Strategy2(d, idx)
      [] k = 3 -> Strategy3(d, idx)
      [] k = 4 -> Strategy4(d, idx)
      [] k = 5 -> Strategy5(d, idx)
      [] k = 6 -> Strategy6(d, idx)
      [] k = 7 -> Strategy7(d, idx)

\* variant: strategy 4 without its "if not matches"
RunsStrategyUnguarded4(k, matches) == k \in {1, 4} \/ matches = <<>>

\* strategy 1 always runs; each later one is under "if not matches"
RunsStrategy(k, matches) == k = 1 \/ matches = <<>>

\* the strategies in source order; fired records the strategies that
\* extended matches by at least one path
RECURSIVE CascadeFrom(_, _, _, _)
CascadeFrom(k, d, idx, acc) ==
    IF k > 7 THEN acc
    ELSE LET Extend(yield) ==
                 CascadeFrom(k + 1, d, idx,
                     [matches |-> acc.matches \o yield,
                      fired |-> IF yield # <<>> THEN acc.fired \cup {k}
                                ELSE acc.fired])
         IN  Extend(IF RunsStrategy(k, acc.matches)
                    THEN StrategyYield(k, d, idx) ELSE <<>>)

Cascade(track, idx) ==
    CascadeFrom(1, Desired(track), idx, [matches |-> <<>>, fired |-> {}])

\* variant: without the duplicate removal
DedupKeepAll(paths) == paths

\* "Remove duplicates while preserving order"
RECURSIVE Dedup(_)
Dedup(paths) ==
    IF paths = <<>> THEN <<>>
    ELSE LET Keep(front, p) ==
                 IF \E n \in 1..Len(front) : front[n] = p THEN front
                 ELSE Append(front, p)
         IN  Keep(Dedup(SubSeq(paths, 1, Len(paths) - 1)), paths[Len(paths)])

\* variant: "found" if matches is not None else "missing"; a list is
\* never None
MatchStatusNotNone(matches) == "found"

\* variant: "found" if len(matches) == 1 else "missing"
MatchStatusUnique(matches) == IF Len(matches) = 1 THEN "found" ELSE "missing"

\* "found" if matches else "missing"
MatchStatus(matches) == IF matches # <<>> THEN "found" ELSE "missing"

(***************************************************************************)
(* Candidate search                                                        *)
(***************************************************************************)
\* artist_album_to_paths.setdefault((a, al), []).extend(paths)
SetDefaultExtend(groups, key, paths) ==
    IF HasKey(groups, key)
    THEN [n \in 1..Len(groups) |->
             IF groups[n].key = key
             THEN [key |-> key, paths |-> groups[n].paths \o paths]
             ELSE groups[n]]
    ELSE Append(groups, [key |-> key, paths |-> paths])

\* the precomputed artist+album grouping
GroupByArtistAlbum(idx, include_cands) ==
    LET acc[n \in 0..Len(idx)] ==
            IF n = 0 THEN <<>>
            ELSE SetDefaultExtend(acc[n - 1],
                                  <<idx[n].key[1], idx[n].key[2]>>, idx[n].paths)
    IN  IF include_cands THEN acc[Len(idx)] ELSE <<>>

\* len(want_tokens & have_tokens) for candidate path p
Score(title, p) ==
    Cardinality(Tokens(Norm(title)) \cap Tokens(Norm(Stem(FileName(p)))))

\* scored.sort(key=lambda x: x[0], reverse=True): a stable sort, so the
\* paths of equal score keep their order
RECURSIVE SortByScore(_, _, _)
SortByScore(title, paths, score) ==
    IF score < 1 THEN <<>>
    ELSE SelectSeq(paths, LAMBDA p : Score(title, p) = score)
         \o SortByScore(title, paths, score - 1)

\* the list slice paths[:n]
Take(paths, n) ==
    LET m == IF n < 0
             THEN (IF Len(paths) + n < 0 THEN 0 ELSE Len(paths) + n)
             ELSE Min(n, Len(paths))
    IN  SubSeq(paths, 1, m)

\* variant: artist_album_to_paths.get(aa_key, <every indexed path>)
CandidatePathsAnyGroup(d, groups, max_cands) ==
    Take(SortByScore(d.title,
                     IF HasKey(groups, <<Norm(d.artist), Norm(d.album)>>)
                     THEN Get(groups, <<Norm(d.artist), Norm(d.album)>>)
                     ELSE ExtendWhere(groups, LAMBDA key : TRUE),
                     Cardinality(Tokens(Norm(d.title)))),
         max_cands)

\* the candidate_paths of a missing track
CandidatePaths(d, groups, max_cands) ==
    Take(SortByScore(d.title,
                     Get(groups, <<Norm(d.artist), Norm(d.album)>>),
                     Cardinality(Tokens(Norm(d.title)))),
         max_cands)

\* variant: "if include_candidates:" in place of "elif include_candidates:"
SearchesCandidatesAlways(matches, include_cands) == include_cands

\* "if matches: ... elif include_candidates:": the candidate search runs
SearchesCandidates(matches, include_cands) == matches = <<>> /\ include_cands

\* the result item of one track
ResultItem(track, idx, groups, include_cands, max_cands) ==
    LET Item(d, matches) ==
            [artist |-> d.artist, album |-> d.album, song |-> d.title,
             match_status |-> MatchStatus(matches),
             matched_paths |-> matches]
        WithCandidates(item, candidate_paths) ==
            [f \in DOMAIN item \cup {"candidate_paths"} |->
                IF f = "candidate_paths" THEN candidate_paths ELSE item[f]]
        Build(d, matches) ==
            IF SearchesCandidates(matches, include_cands)
            THEN WithCandidates(Item(d, matches),
                                CandidatePaths(d, groups, max_cands))
            ELSE Item(d, matches)
    IN  Build(Desired(track), Dedup(Cascade(track, idx).matches))

\* variant: "missing": len(results)
SummaryMiscounted(res, found) ==
    [total_tracks |-> Len(res), found |-> found, missing |-> Len(res)]

\* the summary of the returned dict (library_root, a pass-through, left out)
Summary(res, found) ==
    [total_tracks |-> Len(res), found |-> found, missing |-> Len(res) - found]

(***************************************************************************)
(* create_playlist.py: its own normalizer, extraction, index and cascade   *)
(***************************************************************************)
\* _norm of create_playlist.py: "if not s: return ''", then the same steps
ExportNorm(s) == IF s = None \/ s = "" THEN "" ELSE Norm(s)

\* _normalize_album_name of create_playlist.py
ExportNormalizeAlbumName(album) ==
    IF album = None \/ album = "" THEN ""
    ELSE LET CutSuffix(a) ==
                 CutFrom(a, FirstPos(a, LAMBDA i : AlbumSuffixAt(a, i)))
             CutYear(a) ==
                 CutFrom(a, FirstPos(a, LAMBDA i : AlbumYearAt(a, i)))
         IN  Strip(ExportNorm(CutYear(CutSuffix(album))))

\* _extract_track_name_from_filename of create_playlist.py: the stem is
\* normalized first, the track number is removed from the normalized stem
ExportExtractTrackName(filename_stem, artist) ==
    LET Pick(norm_artist, norm_stem, remaining, parts) ==
            IF StartsWith(norm_stem, norm_artist) /\ remaining # ""
            THEN remaining
            ELSE IF Len(parts) > 1
                 THEN IF ExportNorm(parts[1]) = norm_artist
                      THEN JoinSpace(Tail(parts))
                      ELSE parts[Len(parts)]
                 ELSE norm_stem
        Remaining(norm_artist, norm_stem) ==
            StripLeadingSeparators(Strip(From(norm_stem, Len(norm_artist) + 1)))
        Cleaned(norm_artist, norm_stem) ==
            Pick(norm_artist, norm_stem, Remaining(norm_artist, norm_stem),
                 SplitOnDash(norm_stem))
    IN  Cleaned(ExportNorm(artist), StripTrackNumber(ExportNorm(filename_stem)))

\* the body of the loop of create_playlist's _build_index for one file f
ExportIndexFile(idx, f) ==
    LET Register(norm_artist, norm_album, norm_track, norm_album_flexible,
                 extracted_track) ==
            LET ext == extracted_track # norm_track
                flex == norm_album_flexible # norm_album
                i0 == SetDefaultAppend(idx, <<norm_artist, norm_album, norm_track>>, f)
                i1 == AppendIf(ext, i0,
                               <<norm_artist, norm_album, extracted_track>>, f)
                i1b == AppendIf(ext /\ flex, i1,
                                <<norm_artist, norm_album_flexible, extracted_track>>, f)
                i2 == AppendIf(flex, i1b,
                               <<norm_artist, norm_album_flexible, norm_track>>, f)
                i2b == AppendIf(flex /\ ext, i2,
                                <<norm_artist, norm_album_flexible, extracted_track>>, f)
            IN  i2b
        Named(artist, album, track_stem) ==
            Register(ExportNorm(artist), ExportNorm(album),
                     ExportNorm(track_stem), ExportNormalizeAlbumName(album),
                     ExportExtractTrackName(track_stem, artist))
    IN  Named(ArtistDirName(f), AlbumDirName(f), Stem(FileName(f)))

\* the strings the loop body of export_playlist_copies derives from a track
ExportDesired(track) ==
    LET artist == OrEmpty(track.artist)
        album == OrEmpty(track.release)
        song == OrEmpty(track.song)
    IN  [artist |-> artist, album |-> album, song |-> song,
         norm_artist |-> ExportNorm(artist),
         norm_album |-> ExportNorm(album),
         norm_album_flexible |-> ExportNormalizeAlbumName(album),
         norm_title |-> ExportNorm(song)]

\* Strategy 3 of export: the two album variants
ExportStrategy3(d, idx) ==
    (IF d.norm_album = "" THEN <<>>
     ELSE Get(idx, <<d.norm_artist, d.norm_album, d.norm_title>>))
    \o (IF d.norm_album_flexible = "" THEN <<>>
        ELSE Get(idx, <<d.norm_artist, d.norm_album_flexible, d.norm_title>>))

\* Strategy 4 of export: every title token is in the track name
ExportStrategy4(d, idx) ==
    LET Accept(title_tokens, key) ==
            /\ key[1] = d.norm_artist
            /\ \/ key[2] = d.norm_album
               \/ d.norm_album_flexible # "" /\ key[2] = d.norm_album_flexible
            /\ title_tokens \subseteq Tokens(key[3])
        Scan(title_tokens) ==
            IF title_tokens # {}
            THEN ExtendWhere(idx, LAMBDA key : Accept(title_tokens, key))
            ELSE <<>>
    IN  Scan(Tokens(d.norm_title))

\* the token test of strategies 5 and 6 of export
ExportTokenMatch(title_tokens, track_tokens) ==
    /\ title_tokens # {}
    /\ title_tokens \subseteq track_tokens
    /\ Cardinality(title_tokens) >= 2

\* Strategy 5 of export: artist + track only (ignore album)
ExportStrategy5(d, idx) ==
    LET Exact(key) == key[1] = d.norm_artist /\ key[3] = d.norm_title
        Fuzzy(title_tokens, key) ==
            /\ key[1] = d.norm_artist
            /\ ExportTokenMatch(title_tokens, Tokens(key[3]))
        Scan(title_tokens) ==
            ExactElseFuzzy(ExtendWhere(idx, Exact), idx,
                           LAMBDA key : Fuzzy(title_tokens, key))
    IN  Scan(Tokens(d.norm_title))

\* Strategy 6 of export, the body of "for va_name in various_artists_names"
ExportStrategy6Alias(d, idx, matches, va_name) ==
    LET Exact(norm_va, key) == key[1] = norm_va /\ key[3] = d.norm_title
        Fuzzy(norm_va, title_tokens, key) ==
            /\ key[1] = norm_va
            /\ ExportTokenMatch(title_tokens, Tokens(key[3]))
        ByAlbum(norm_va) ==
            matches
            \o (IF d.norm_album = "" THEN <<>>
                ELSE Get(idx, <<norm_va, d.norm_album, d.norm_title>>))
            \o (IF d.norm_album_flexible = "" THEN <<>>
                ELSE Get(idx, <<norm_va, d.norm_album_flexible, d.norm_title>>))
        ByTokens(norm_va, title_tokens) ==
            ExactElseFuzzy(
                ExtendWhere(idx, LAMBDA key : Exact(norm_va, key)), idx,
                LAMBDA key : Fuzzy(norm_va, title_tokens, key))
        AnyAlbum(norm_va, m1) ==
            IF m1 = <<>> THEN ByTokens(norm_va, Tokens(d.norm_title)) ELSE m1
        Alias(norm_va) == AnyAlbum(norm_va, ByAlbum(norm_va))
    IN  Alias(ExportNorm(va_name))

RECURSIVE ExportStrategy6Loop(_, _, _, _)
ExportStrategy6Loop(d, idx, matches, names) ==
    IF names = <<>> THEN matches
    ELSE LET Break(m) ==
                 IF m # <<>> THEN m
                 ELSE ExportStrategy6Loop(d, idx, m, Tail(names))
         IN  Break(ExportStrategy6Alias(d, idx, matches, Head(names)))

\* what strategy k of export extends matches with
ExportStrategyYield(k, d, idx) ==
    CASE k = 1 -> Strategy1(d, idx)
      [] k = 2 -> Strategy2(d, idx)
      [] k = 3 -> ExportStrategy3(d, idx)
      [] k = 4 -> ExportStrategy4(d, idx)
      [] k = 5 -> ExportStrategy5(d, idx)
      [] k = 6 -> ExportStrategy6Loop(d, idx, <<>>, various_artists_names)

\* the six strategies of export in source order
RECURSIVE ExportCascadeFrom(_, _, _, _)
ExportCascadeFrom(k, d, idx, matches) ==
    IF k > 6 THEN matches
    ELSE ExportCascadeFrom(k + 1, d, idx,
             matches \o (IF RunsStrategy(k, matches)
                         THEN ExportStrategyYield(k, d, idx) ELSE <<>>))

\* the matches of a track after "Remove duplicates"
ExportMatches(track, idx) ==
    Dedup(ExportCascadeFrom(1, ExportDesired(track), idx, <<>>))

\* len(want & have) in _pick_best_candidate
ExportScore(song, p) ==
    Cardinality(Tokens(ExportNorm(song))
                \cap Tokens(ExportNorm(Stem(FileName(p)))))

\* _pick_best_candidate: the first candidate of the highest score, the
\* first candidate when the title has no token, None when there is none
PickBestCandidate(song, candidates) ==
    IF candidates = <<>> THEN None
    ELSE IF Tokens(ExportNorm(song)) = {} THEN candidates[1]
    ELSE candidates[CHOOSE i \in 1..Len(candidates) :
             /\ \A j \in 1..Len(candidates) :
                    ExportScore(song, candidates[j])
                        <= ExportScore(song, candidates[i])
             /\ \A j \in 1..(i - 1) :
                    ExportScore(song, candidates[j])
                        < ExportScore(song, candidates[i])]

\* the candidates of the final fallback: the group of the album, else the
\* group of the normalized album
ExportCandidates(d, groups) ==
    IF Get(groups, <<d.norm_artist, d.norm_album>>) = <<>>
       /\ d.norm_album_flexible # d.norm_album
    THEN Get(groups, <<d.norm_artist, d.norm_album_flexible>>)
    ELSE Get(groups, <<d.norm_artist, d.norm_album>>)

\* variant: the best-scoring match is chosen
ChosenBestMatch(song, matches) == PickBestCandidate(song, matches)

\* "chosen = matches[0]"
Chosen(song, matches) == matches[1]

\* _safe_filename: characters that are removed
UnsafeChars == {"<", ">", ":", "\"", "\\", "|", "?", "*"}

RECURSIVE ReplaceSlash(_)
ReplaceSlash(s) ==
    IF s = "" THEN ""
    ELSE (IF Head(s) = "/" THEN "-" ELSE Head(s)) \o ReplaceSlash(Tail(s))

RECURSIVE DropUnsafe(_)
DropUnsafe(s) ==
    IF s = "" THEN ""
    ELSE (IF Head(s) \in UnsafeChars THEN "" ELSE Head(s))
         \o DropUnsafe(Tail(s))

SafeFilenameMaxLen == 180

\* _safe_filename(s)
SafeFilename(s) ==
    LET Cut(t) == IF t = "" THEN "unknown" ELSE t
        Clean(t) ==
            Cut(Strip(Slice(DropUnsafe(Strip(CollapseSpace(ReplaceSlash(
                                    NFKD(t))))), 1, SafeFilenameMaxLen)))
    IN  Clean(IF s = "" \/ s = None THEN "unknown" ELSE s)

Digits == "0123456789"

\* str(n) for a natural number
RECURSIVE Str(_)
Str(n) ==
    IF n < 10 THEN Char(Digits, n + 1)
    ELSE Str(n \div 10) \o Char(Digits, (n % 10) + 1)

\* s.zfill(width)
RECURSIVE ZFill(_, _)
ZFill(s, width) == IF Len(s) >= width THEN s ELSE ZFill("0" \o s, width)

\* pad = max(2, len(str(len(tracks))))
Pad(total) == IF Len(Str(total)) > 2 THEN Len(Str(total)) ELSE 2

\* the name of the copy of track number i
DestName(i, total, artist, song, chosen) ==
    ZFill(Str(i), Pad(total)) \o " - " \o SafeFilename(artist) \o " - "
    \o SafeFilename(song) \o Lower(Suffix(FileName(chosen)))

\* variant: "if dest_path.exists():" is left out, the file is always copied
KeepsExistingNever(exists, overwrite_flag) == FALSE

\* "if dest_path.exists() and not overwrite"
KeepsExisting(exists, overwrite_flag) == exists /\ ~overwrite_flag

\* the report item of track number i, before the copy is decided, and the
\* deduplicated matches it was chosen from
ExportChoice(i, track, idx, groups) ==
    LET Item(d, matches, chosen) ==
            [item |-> [order |-> i, time |-> None, artist |-> d.artist,
                       album |-> d.album,
                       song |-> d.song,
                       match_type |-> IF matches # <<>> THEN "exact"
                                      ELSE IF chosen # None THEN "candidate"
                                      ELSE None,
                       source_path |-> chosen,
                       copied_path |-> None],
             matches |-> matches]
        Choose(d, matches) ==
            Item(d, matches,
                 IF matches # <<>> THEN Chosen(d.song, matches)
                 ELSE PickBestCandidate(d.song, ExportCandidates(d, groups)))
    IN  Choose(ExportDesired(track), ExportMatches(track, idx))

\* item["copied_path"] = ..., with item["note"] when the copy is skipped
WithCopiedPath(item, dest, kept) ==
    [f \in DOMAIN item \cup (IF kept THEN {"note"} ELSE {}) |->
        IF f = "copied_path" THEN dest
        ELSE IF f = "note" THEN "exists (not overwritten)"
        ELSE item[f]]

(***************************************************************************)
(* State                                                                   *)
(***************************************************************************)
VARIABLES
    scenario,               \* which library and playlist this run draws from
    root_kind,              \* what library_root is: "missing", "file", "dir"
    include_candidates,     \* parameter
    max_candidates,         \* parameter
    walk,                   \* the entries rglob has yielded so far, in order
    tracks,                 \* the records of data["tracks"] iterated so far
    pc,                     \* position in match_playlist_to_library
    index,                  \* the library index
    artist_album_to_paths,  \* the grouping for the candidate search
    results,                \* the result items
    fired,                  \* per result, the strategies that added paths
    found_count,
    summary,                \* the summary returned, <<>> before the return
    norm_input,             \* a text handed to _norm on its own, as the
                            \* sequence of the fragments it is made of
    norm_output,            \* what _norm returned for it, then for its result
    feat_text,              \* a featured-artist text
    feat_output,            \* what _norm returned for the text with a
                            \* featuring suffix, one entry per form
    fold_output,            \* what _norm returned for the text in lower
                            \* case and without diacritics
    overwrite,              \* parameter of export_playlist_copies
    dest_existed,           \* the destination names dest_path.exists() was
                            \* true for
    copies,                 \* the calls of shutil.copy2, in order
    copied,
    missing,
    export_matches          \* per report item, the matches of its track

match_vars == <<scenario, root_kind, include_candidates, max_candidates,
                walk, tracks, pc, index, artist_album_to_paths, results,
                fired, found_count, summary>>

norm_vars == <<norm_input, norm_output, feat_text, feat_output, fold_output>>

export_vars == <<overwrite, dest_existed, copies, copied, missing,
                 export_matches>>

\* the state of a run that never enters export_playlist_copies
ExportIdle ==
    /\ overwrite = FALSE
    /\ dest_existed = {}
    /\ copies = <<>>
    /\ copied = 0
    /\ missing = 0
    /\ export_matches = <<>>

vars == <<match_vars, norm_vars, export_vars>>

Init ==
    /\ scenario \in DOMAIN Scenarios
    /\ root_kind \in {"missing", "file", "dir"}
    /\ include_candidates \in BOOLEAN
    /\ max_candidates \in 1..MaxCandidates
    /\ walk = <<>>
    /\ tracks = <<>>
    /\ pc = "start"
    /\ index = <<>>
    /\ artist_album_to_paths = <<>>
    /\ results = <<>>
    /\ fired = <<>>
    /\ found_count = 0
    /\ summary = <<>>
    /\ norm_input = <<>>
    /\ norm_output = <<>>
    /\ feat_text = ""
    /\ feat_output = <<>>
    /\ fold_output = <<>>
    /\ ExportIdle

\* "if not library_root.exists(): raise FileNotFoundError", else the call
\* of _build_index starts with an empty index
CheckRoot ==
    /\ pc = "start"
    /\ pc' = IF root_kind = "missing" THEN "raised" ELSE "index"
    /\ UNCHANGED <<norm_vars, export_vars>>
    /\ UNCHANGED <<scenario, root_kind, include_candidates, max_candidates,
                   walk, tracks, index, artist_album_to_paths, results,
                   fired, found_count, summary>>

Walked == {walk[n] : n \in 1..Len(walk)}

\* rglob yields one more entry; _iter_audio_files passes it on to the loop
\* of _build_index when it is an audio file.  Only a directory has entries.
WalkEntry(entry) ==
    /\ pc = "index"
    /\ root_kind = "dir"
    /\ Len(walk) < MaxFiles
    /\ entry \in Scenarios[scenario].entries \ Walked
    /\ walk' = Append(walk, entry)
    /\ index' = IF IsAudioFile(entry) THEN IndexFile(index, entry.path)
                ELSE index
    /\ UNCHANGED <<norm_vars, export_vars>>
    /\ UNCHANGED <<scenario, root_kind, include_candidates, max_candidates,
                   tracks, pc, artist_album_to_paths, results, fired,
                   found_count, summary>>

\* the walk is exhausted and _build_index returns
BuildIndexReturn ==
    /\ pc = "index"
    /\ pc' = "group"
    /\ UNCHANGED <<norm_vars, export_vars>>
    /\ UNCHANGED <<scenario, root_kind, include_candidates, max_candidates,
                   walk, tracks, index, artist_album_to_paths, results,
                   fired, found_count, summary>>

\* results = [], found_count = 0 and the artist+album grouping
Precompute ==
    /\ pc = "group"
    /\ results' = <<>>
    /\ found_count' = 0
    /\ artist_album_to_paths' = GroupByArtistAlbum(index, include_candidates)
    /\ pc' = "resolve"
    /\ UNCHANGED <<norm_vars, export_vars>>
    /\ UNCHANGED <<scenario, root_kind, include_candidates, max_candidates,
                   walk, tracks, index, fired, summary>>

\* variant: strategy 1 reads the index with index.pop(key, []), which
\* removes the key it looks up
ResolveTrackPopping(track) ==
    /\ pc = "resolve"
    /\ Len(tracks) < MaxTracks
    /\ track \in Scenarios[scenario].tracks
    /\ \E item \in {ResultItem(track, index, artist_album_to_paths,
                                include_candidates, max_candidates)} :
           /\ results' = Append(results, item)
           /\ found_count' = IF item.matched_paths # <<>>
                             THEN found_count + 1 ELSE found_count
    /\ \E d \in {Desired(track)} :
           index' = SelectSeq(index, LAMBDA e :
                        e.key # <<d.norm_artist, d.norm_album, d.norm_title>>)
    /\ fired' = Append(fired, Cascade(track, index).fired)
    /\ tracks' = Append(tracks, track)
    /\ UNCHANGED <<norm_vars, export_vars>>
    /\ UNCHANGED <<scenario, root_kind, include_candidates, max_candidates,
                   walk, pc, artist_album_to_paths, summary>>

\* one iteration of "for track in data.get('tracks', [])"
ResolveTrack(track) ==
    /\ pc = "resolve"
    /\ Len(tracks) < MaxTracks
    /\ track \in Scenarios[scenario].tracks
    /\ \E item \in {ResultItem(track, index, artist_album_to_paths,
                                include_candidates, max_candidates)} :
           /\ results' = Append(results, item)
           /\ found_count' = IF item.matched_paths # <<>>
                             THEN found_count + 1 ELSE found_count
    /\ fired' = Append(fired, Cascade(track, index).fired)
    /\ tracks' = Append(tracks, track)
    /\ UNCHANGED <<norm_vars, export_vars>>
    /\ UNCHANGED <<scenario, root_kind, include_candidates, max_candidates,
                   walk, pc, index, artist_album_to_paths, summary>>

\* the track list is exhausted: build the summary and return
Return ==
    /\ pc = "resolve"
    /\ summary' = Summary(results, found_count)
    /\ pc' = "done"
    /\ UNCHANGED <<norm_vars, export_vars>>
    /\ UNCHANGED <<scenario, root_kind, include_candidates, max_candidates,
                   walk, tracks, index, artist_album_to_paths, results,
                   fired, found_count>>

Next ==
    \/ CheckRoot
    \/ \E entry \in Scenarios[scenario].entries : WalkEntry(entry)
    \/ BuildIndexReturn
    \/ Precompute
    \/ \E track \in Scenarios[scenario].tracks : ResolveTrack(track)
    \/ Return

Spec == Init /\ [][Next]_vars

(***************************************************************************)
(* _norm on its own: a text is assembled from fragments and normalized,    *)
(* the result is normalized again, then the text is normalized with each   *)
(* featuring suffix and in lower case without diacritics                   *)
(***************************************************************************)
\* fragments per text, at most
MaxFragments == 4

NormFragments == <<"f", ".", "eat ", "x", "(", "&", "eat", "É", "at ">>

\* the sequences of at most n fragments, each fragment by its number
RECURSIVE FragmentSeqs(_)
FragmentSeqs(n) ==
    IF n = 0 THEN {<<>>}
    ELSE {<<>>} \cup {<<c>> \o w : c \in DOMAIN NormFragments,
                                   w \in FragmentSeqs(n - 1)}

\* the text a sequence of fragments makes
RECURSIVE FragmentText(_)
FragmentText(frags) ==
    IF frags = <<>> THEN ""
    ELSE NormFragments[Head(frags)] \o FragmentText(Tail(frags))

\* featured-artist texts, without a closing parenthesis or bracket
FeatTexts == {"X", "Y & Z"}

\* the four featuring suffixes of test_norm_removes_feat_patterns
FeatForms == 4

FeatSuffix(form, x) ==
    CASE form = 1 -> " (feat. " \o x \o ")"
      [] form = 2 -> " [feat. " \o x \o "]"
      [] form = 3 -> " feat. " \o x
      [] form = 4 -> " feat " \o x

\* the text without its diacritics, in lower case
RECURSIVE Fold(_)
Fold(s) ==
    IF s = "" THEN ""
    ELSE LowerChar(Head(Decompose(Head(s)))) \o Fold(Tail(s))

NormInit ==
    /\ norm_input \in FragmentSeqs(MaxFragments)
    /\ norm_output = <<>>
    /\ feat_text \in FeatTexts
    /\ feat_output = <<>>
    /\ fold_output = <<>>
    /\ scenario = 1
    /\ root_kind = "dir"
    /\ include_candidates = FALSE
    /\ max_candidates = 1
    /\ walk = <<>>
    /\ tracks = <<>>
    /\ pc = "start"
    /\ index = <<>>
    /\ artist_album_to_paths = <<>>
    /\ results = <<>>
    /\ fired = <<>>
    /\ found_count = 0
    /\ summary = <<>>
    /\ ExportIdle

\* _norm(s)
NormalizeInput ==
    /\ norm_output = <<>>
    /\ norm_output' = <<Norm(FragmentText(norm_input))>>
    /\ UNCHANGED <<norm_input, feat_text, feat_output, fold_output>>
    /\ UNCHANGED <<match_vars, export_vars>>

\* _norm(_norm(s))
NormalizeOutput ==
    /\ Len(norm_output) = 1
    /\ norm_output' = Append(norm_output, Norm(norm_output[1]))
    /\ UNCHANGED <<norm_input, feat_text, feat_output, fold_output>>
    /\ UNCHANGED <<match_vars, export_vars>>

\* _norm(s + " (feat. X)") and the other three forms, one after the other
NormalizeFeatured ==
    /\ Len(norm_output) = 2
    /\ Len(feat_output) < FeatForms
    /\ feat_output' =
           Append(feat_output,
                  Norm(FragmentText(norm_input)
                       \o FeatSuffix(Len(feat_output) + 1, feat_text)))
    /\ UNCHANGED <<norm_input, norm_output, feat_text, fold_output>>
    /\ UNCHANGED <<match_vars, export_vars>>

\* _norm of the text in lower case and without diacritics
NormalizeFolded ==
    /\ Len(feat_output) = FeatForms
    /\ fold_output = <<>>
    /\ fold_output' = <<Norm(Fold(FragmentText(norm_input)))>>
    /\ UNCHANGED <<norm_input, norm_output, feat_text, feat_output>>
    /\ UNCHANGED <<match_vars, export_vars>>

NormNext ==
    \/ NormalizeInput
    \/ NormalizeOutput
    \/ NormalizeFeatured
    \/ NormalizeFolded

NormSpec == NormInit /\ [][NormNext]_vars

(***************************************************************************)
(* export_playlist_copies: index and report_results are held in index and  *)
(* results, the destination folder is seen through dest_path.exists()      *)
(***************************************************************************)
ExportInit ==
    /\ scenario \in DOMAIN Scenarios
    /\ root_kind \in {"missing", "file", "dir"}
    /\ overwrite \in BOOLEAN
    /\ include_candidates = FALSE
    /\ max_candidates = 1
    /\ walk = <<>>
    /\ tracks = <<>>
    /\ pc = "start"
    /\ index = <<>>
    /\ artist_album_to_paths = <<>>
    /\ results = <<>>
    /\ fired = <<>>
    /\ found_count = 0
    /\ summary = <<>>
    /\ norm_input = <<>>
    /\ norm_output = <<>>
    /\ feat_text = ""
    /\ feat_output = <<>>
    /\ fold_output = <<>>
    /\ dest_existed = {}
    /\ copies = <<>>
    /\ copied = 0
    /\ missing = 0
    /\ export_matches = <<>>

\* "if not library_root.exists(): raise FileNotFoundError"; the destination
\* folder is created and _build_index starts with an empty index
ExportCheckRoot ==
    /\ pc = "start"
    /\ pc' = IF root_kind = "missing" THEN "raised" ELSE "index"
    /\ UNCHANGED <<norm_vars, export_vars>>
    /\ UNCHANGED <<scenario, root_kind, include_candidates, max_candidates,
                   walk, tracks, index, artist_album_to_paths, results,
                   fired, found_count, summary>>

\* rglob yields one more entry to the loop of create_playlist's _build_index
ExportWalkEntry(entry) ==
    /\ pc = "index"
    /\ root_kind = "dir"
    /\ Len(walk) < MaxFiles
    /\ entry \in Scenarios[scenario].entries \ Walked
    /\ walk' = Append(walk, entry)
    /\ index' = IF IsAudioFile(entry) THEN ExportIndexFile(index, entry.path)
                ELSE index
    /\ UNCHANGED <<norm_vars, export_vars>>
    /\ UNCHANGED <<scenario, root_kind, include_candidates, max_candidates,
                   tracks, pc, artist_album_to_paths, results, fired,
                   found_count, summary>>

\* the walk is exhausted and _build_index returns
ExportBuildIndexReturn ==
    /\ pc = "index"
    /\ pc' = "group"
    /\ UNCHANGED <<norm_vars, export_vars>>
    /\ UNCHANGED <<scenario, root_kind, include_candidates, max_candidates,
                   walk, tracks, index, artist_album_to_paths, results,
                   fired, found_count, summary>>

\* the artist+album grouping, report_results = [], copied = 0, missing = 0
ExportPrecompute ==
    /\ pc = "group"
    /\ artist_album_to_paths' = GroupByArtistAlbum(index, TRUE)
    /\ results' = <<>>
    /\ copied' = 0
    /\ missing' = 0
    /\ pc' = "resolve"
    /\ UNCHANGED norm_vars
    /\ UNCHANGED <<overwrite, dest_existed, copies, export_matches>>
    /\ UNCHANGED <<scenario, root_kind, include_candidates, max_candidates,
                   walk, tracks, index, fired, found_count, summary>>

\* one iteration of "for i, t in enumerate(tracks, start=1)"; exists is what
\* dest_path.exists() returns.  The names of two tracks differ in their
\* number, so no copy of this run makes a later destination exist.  Every
\* playlist of the model has fewer than 100 tracks, which makes pad 2.
ExportTrack(track, exists) ==
    /\ pc = "resolve"
    /\ Len(tracks) < MaxTracks
    /\ track \in Scenarios[scenario].tracks
    /\ \E c \in {ExportChoice(Len(tracks) + 1, track, index,
                               artist_album_to_paths)} :
           /\ export_matches' = Append(export_matches, c.matches)
           /\ IF c.item.source_path = None
              THEN /\ ~exists
                   /\ missing' = missing + 1
                   /\ results' = Append(results, c.item)
                   /\ UNCHANGED <<dest_existed, copies, copied>>
              ELSE \E dest \in {DestName(c.item.order, MaxTracks,
                                         c.item.artist, c.item.song,
                                         c.item.source_path)} :
                       /\ dest_existed' = IF exists
                                          THEN dest_existed \cup {dest}
                                          ELSE dest_existed
                       /\ results' = Append(results,
                              WithCopiedPath(c.item, dest,
                                             KeepsExisting(exists, overwrite)))
                       /\ IF KeepsExisting(exists, overwrite)
                          THEN UNCHANGED <<copies, copied>>
                          ELSE /\ copies' = Append(copies,
                                      [source |-> c.item.source_path,
                                       dest |-> dest])
                               /\ copied' = copied + 1
                       /\ UNCHANGED missing
    /\ tracks' = Append(tracks, track)
    /\ UNCHANGED norm_vars
    /\ UNCHANGED overwrite
    /\ UNCHANGED <<scenario, root_kind, include_candidates, max_candidates,
                   walk, pc, index, artist_album_to_paths, fired,
                   found_count, summary>>

\* the summary of the report
ExportSummary(total, n_copied, n_missing) ==
    [total_tracks |-> total, copied |-> n_copied, missing |-> n_missing]

\* the track list is exhausted: build the report and return
ExportReturn ==
    /\ pc = "resolve"
    /\ summary' = ExportSummary(Len(tracks), copied, missing)
    /\ pc' = "done"
    /\ UNCHANGED <<norm_vars, export_vars>>
    /\ UNCHANGED <<scenario, root_kind, include_candidates, max_candidates,
                   walk, tracks, index, artist_album_to_paths, results,
                   fired, found_count>>

ExportNext ==
    \/ ExportCheckRoot
    \/ \E entry \in Scenarios[scenario].entries : ExportWalkEntry(entry)
    \/ ExportBuildIndexReturn
    \/ ExportPrecompute
    \/ \E track \in Scenarios[scenario].tracks :
           \E exists \in BOOLEAN : ExportTrack(track, exists)
    \/ ExportReturn

ExportSpec == ExportInit /\ [][ExportNext]_vars

(***************************************************************************)
(* Properties                                                              *)
(***************************************************************************)
AfterBuild == pc \in {"group", "resolve", "done"}

Resolving == pc \in {"resolve", "done"}

\* the paths of a list, as a set
PathSet(paths) == {paths[n] : n \in 1..Len(paths)}

\* the paths registered under any key of an index
IndexedPaths(idx) == UNION {PathSet(idx[n].paths) : n \in 1..Len(idx)}

\* the verdict of resolving track against idx
Found(track, idx) == MatchStatus(Dedup(Cascade(track, idx).matches)) = "found"

\* the track that names an audio file at Artist/Album/Track.ext by its raw
\* folder names and stem
TrackOf(path) == Track(path[1], path[2], Stem(path[3]))

\* the normalized compilation aliases
NormAliases == {Norm(various_artists_names[n]) : n \in DOMAIN various_artists_names}

\* C1: every result item has match_status "found" exactly when its
\* matched_paths is non-empty, and "missing" otherwise.
C1_StatusIffMatched ==
    \A n \in 1..Len(results) :
        /\ results[n].match_status \in {"found", "missing"}
        /\ results[n].match_status = "found" <=> results[n].matched_paths # <<>>
        /\ results[n].match_status = "missing" <=> results[n].matched_paths = <<>>

C1_Witness ==
    \E n, m \in 1..Len(results) :
        /\ results[n].match_status = "found" /\ results[n].matched_paths # <<>>
        /\ results[m].match_status = "missing" /\ results[m].matched_paths = <<>>

\* C2: the strategies are tried in the order 1..7 and the cascade stops at
\* the first one that yields a path: when strategy k contributed the
\* matched paths of a result, every strategy before k yields no path for
\* that track, no other strategy contributed, and matched_paths is the
\* yield of strategy k.
C2_FirstYieldingStrategy ==
    Resolving =>
        \A n \in 1..Len(results) :
            /\ Cardinality(fired[n]) <= 1
            /\ \A k \in fired[n] :
                  /\ \A j \in 1..(k - 1) :
                        StrategyYield(j, Desired(tracks[n]), index) = <<>>
                  /\ results[n].matched_paths =
                        Dedup(StrategyYield(k, Desired(tracks[n]), index))

C2_Witness ==
    \E n \in 1..Len(results) :
        /\ fired[n] = {4}
        /\ results[n].matched_paths # <<>>
        /\ \A j \in 1..3 : StrategyYield(j, Desired(tracks[n]), index) = <<>>

\* C3: once _build_index has returned, no step changes the index: the
\* grouping for the candidate search, the resolution of a track and the
\* return all leave its keys and the path list under every key as they are.
C3_IndexImmutable == [][AfterBuild => index' = index]_vars

C3_Witness ==
    /\ pc = "done"
    /\ index # <<>>
    /\ \E n, m \in 1..Len(results) :
          /\ results[n].match_status = "found"
          /\ "candidate_paths" \in DOMAIN results[m]

\* C4: for an audio file at root/Artist/Album/Track.ext, the track that
\* carries the raw strings Artist, Album and the stem of the file is
\* matched by strategy 1, and the file is in its matched_paths.
C4_ExactKeyFindsFile ==
    Resolving =>
        \A n \in 1..Len(results) : \A m \in 1..Len(walk) :
            ( /\ IsAudioFile(walk[m])
              /\ Len(walk[m].path) = 3
              /\ tracks[n] = TrackOf(walk[m].path) )
            => /\ fired[n] = {1}
               /\ walk[m].path \in PathSet(results[n].matched_paths)

C4_Witness ==
    \E n \in 1..Len(results) : \E m \in 1..Len(walk) :
        /\ IsAudioFile(walk[m])
        /\ Len(walk[m].path) = 3
        /\ tracks[n] = TrackOf(walk[m].path)
        /\ fired[n] = {1}
        /\ Len(results[n].matched_paths) = 2

\* C5: adding to the index never turns a found track into a missing one:
\* when the index grows by the alias keys of one more file, or by any
\* single one of those keys, every track that resolves "found" against
\* the smaller index resolves "found" against the larger one.
C5_AddingKeysKeepsFound ==
    [][(pc = "index" /\ pc' = "index") =>
          \A t \in Scenarios[scenario].tracks :
              Found(t, index) =>
                  /\ Found(t, index')
                  /\ \A n \in 1..Len(index') :
                        Found(t, SetDefaultAppend(index, index'[n].key,
                                                  walk'[Len(walk')].path))]_vars

C5_Witness ==
    /\ pc = "index"
    /\ Len(walk) = 2
    /\ IsAudioFile(walk[1]) /\ IsAudioFile(walk[2])
    /\ Len(index) > Len(IndexFile(<<>>, walk[1].path))
    /\ \E t \in Scenarios[scenario].tracks :
          Found(t, IndexFile(<<>>, walk[1].path)) /\ Found(t, index)

\* C6: there is one result item per track, in the order of the tracks, and
\* the summary counts them: total_tracks is the number of tracks, found the
\* number of "found" items, found + missing = total_tracks; an empty track
\* list gives no result and three zero counts.
C6_OneResultPerTrack ==
    /\ Len(results) = Len(tracks)
    /\ \A n \in 1..Len(results) :
          /\ results[n].artist = OrEmpty(tracks[n].artist)
          /\ results[n].album = OrEmpty(tracks[n].release)
          /\ results[n].song = OrEmpty(tracks[n].song)
    /\ pc = "done" =>
          /\ summary.total_tracks = Len(tracks)
          /\ summary.found =
                Cardinality({n \in 1..Len(results) :
                                results[n].match_status = "found"})
          /\ summary.found + summary.missing = summary.total_tracks
          /\ tracks = <<>> =>
                /\ results = <<>>
                /\ summary = [total_tracks |-> 0, found |-> 0, missing |-> 0]

C6_Witness ==
    /\ pc = "done"
    /\ Len(tracks) = 2
    /\ tracks[1] # tracks[2]
    /\ summary.found = 1
    /\ summary.missing = 1

\* C7 (as claimed): when the library root does not exist or is not a
\* directory, the call raises before the index is built.
C7_RaisesUnlessDirectory == root_kind # "dir" => pc \in {"start", "raised"}

\* C8 (as claimed): an audio file with fewer than two ancestor directories
\* below the root is registered under no key of the index.
C8_ShallowFilesSkipped ==
    \A m \in 1..Len(walk) :
        (IsAudioFile(walk[m]) /\ Len(walk[m].path) < 3)
        => walk[m].path \notin IndexedPaths(index)

\* the position of a path in the walk
Discovery(path) == CHOOSE m \in 1..Len(walk) : walk[m].path = path

\* C9 (as claimed): the path list under every key of the index holds no
\* path twice and is in discovery order.
C9_IndexListsDeduplicated ==
    \A n \in 1..Len(index) :
        \A a, b \in 1..Len(index[n].paths) :
            a < b => Discovery(index[n].paths[a]) < Discovery(index[n].paths[b])

\* C10 (as claimed): a track whose artist is empty or None matches no
\* indexed file and resolves "missing".
C10_EmptyArtistMissing ==
    \A n \in 1..Len(results) :
        tracks[n].artist \in {None, ""} => results[n].match_status = "missing"

\* C10 (amended): every track yields one result item, also with fields
\* left out; a track whose artist is empty or None has the empty normalized
\* artist, each of its matched paths is registered under an index key whose
\* artist is empty or a compilation alias, and it resolves "missing" when
\* the index has no such key.
C10_EmptyArtistGraceful ==
    /\ Len(results) = Len(tracks)
    /\ Resolving =>
          \A n \in 1..Len(results) :
              tracks[n].artist \in {None, ""} =>
                  /\ Desired(tracks[n]).norm_artist = ""
                  /\ \A p \in PathSet(results[n].matched_paths) :
                        \E m \in 1..Len(index) :
                            /\ index[m].key[1] \in {""} \cup NormAliases
                            /\ p \in PathSet(index[m].paths)
                  /\ (\A m \in 1..Len(index) :
                          index[m].key[1] \notin {""} \cup NormAliases)
                     => results[n].match_status = "missing"

C10_Witness ==
    \E n, m \in 1..Len(results) :
        /\ tracks[n].artist = None
        /\ results[n].match_status = "found"
        /\ tracks[m].artist = ""
        /\ results[m].match_status = "missing"
        /\ \E k \in 1..Len(index) : index[k].key[1] \notin {""} \cup NormAliases

\* walk[a] and walk[b] are audio files of one Artist/Album folder whose
\* stems differ only by a trailing " (Remix)" on the second
RemixPair(a, b) ==
    /\ IsAudioFile(walk[a]) /\ IsAudioFile(walk[b])
    /\ Len(walk[a].path) = 3 /\ Len(walk[b].path) = 3
    /\ walk[a].path[1] = walk[b].path[1]
    /\ walk[a].path[2] = walk[b].path[2]
    /\ Stem(walk[b].path[3]) = Stem(walk[a].path[3]) \o " (Remix)"

CompilationFile(m) ==
    /\ IsAudioFile(walk[m])
    /\ Len(walk[m].path) = 3
    /\ Norm(walk[m].path[1]) \in NormAliases

\* the track names an artist, and no index key carries that artist
NoFolderFor(track) ==
    /\ track.artist \notin {None, ""}
    /\ \A k \in 1..Len(index) : index[k].key[1] # Norm(track.artist)

\* the track names some artist without a folder, and the album folder and
\* the stem of the compilation file walk[m]
CompilationTrack(track, m) ==
    /\ CompilationFile(m)
    /\ NoFolderFor(track)
    /\ track.release = walk[m].path[2]
    /\ track.song = Stem(walk[m].path[3])

\* the position of a normalized alias in various_artists_names
AliasPos(norm_va) ==
    CHOOSE j \in DOMAIN various_artists_names :
        Norm(various_artists_names[j]) = norm_va

\* some audio file sits in the folder of an alias that strategy 7 tries
\* before the alias of walk[m]
EarlierAliasFolder(m) ==
    \E k \in 1..Len(walk) :
        /\ CompilationFile(k)
        /\ AliasPos(Norm(walk[k].path[1])) < AliasPos(Norm(walk[m].path[1]))

\* C12 (as claimed): a track that names an artist without a folder, and the
\* album and stem of a file in a compilation-alias folder, resolves "found"
\* by strategy 7 alone, with that file in its matched_paths.
C12_CompilationRecall ==
    Resolving =>
        \A n \in 1..Len(results) : \A m \in 1..Len(walk) :
            CompilationTrack(tracks[n], m)
            => /\ results[n].match_status = "found"
               /\ fired[n] = {7}
               /\ walk[m].path \in PathSet(results[n].matched_paths)

\* C12 (amended): such a track resolves "found" by strategy 7 alone, every
\* matched path lies in a compilation-alias folder, and the file is among
\* them when no audio file sits in the folder of an alias that comes
\* earlier in the alias list.
C12_CompilationRecallFirstAlias ==
    Resolving =>
        \A n \in 1..Len(results) : \A m \in 1..Len(walk) :
            CompilationTrack(tracks[n], m)
            => /\ results[n].match_status = "found"
               /\ fired[n] = {7}
               /\ \A p \in PathSet(results[n].matched_paths) :
                     Norm(p[1]) \in NormAliases
               /\ ~EarlierAliasFolder(m)
                     => walk[m].path \in PathSet(results[n].matched_paths)

C12_Witness ==
    \E n \in 1..Len(results) : \E m \in 1..Len(walk) :
        /\ CompilationTrack(tracks[n], m)
        /\ walk[m].path[1] = "VA"
        /\ fired[n] = {7}
        /\ results[n].matched_paths = <<walk[m].path>>

\* x is " - Single", " - EP", " - Album" or " - LP", or a 4-digit year in
\* parentheses or brackets after a space
IsAlbumSuffix(x) ==
    \/ x \in {" - Single", " - EP", " - Album", " - LP"}
    \/ /\ Len(x) = 7
       /\ <<Slice(x, 1, 2), Char(x, 7)>> \in {<<" (", ")">>, <<" [", "]">>}
       /\ \A k \in 3..6 : IsDigit(Char(x, k))

\* long is short followed by one such suffix
SuffixedAlbum(long, short) ==
    /\ long # None /\ short \notin {None, ""}
    /\ StartsWith(long, short)
    /\ IsAlbumSuffix(From(long, Len(short) + 1))

\* the track carries the artist folder and the stem of the audio file
\* walk[m], and its album and the album folder differ by one suffix
SuffixTrack(track, m) ==
    /\ IsAudioFile(walk[m])
    /\ Len(walk[m].path) = 3
    /\ track.artist = walk[m].path[1]
    /\ track.song = Stem(walk[m].path[3])
    /\ \/ SuffixedAlbum(track.release, walk[m].path[2])
       \/ SuffixedAlbum(walk[m].path[2], track.release)

\* C13: a track whose album differs from the album folder of a file only
\* by a trailing "- Single", "- EP", "- Album", "- LP" or 4-digit year, on
\* either side, and whose artist and title are the file's, resolves
\* "found", by the exact lookup (strategy 1) or the lookup with the
\* normalized album (strategy 2).
C13_AlbumSuffixTolerance ==
    Resolving =>
        \A n \in 1..Len(results) : \A m \in 1..Len(walk) :
            SuffixTrack(tracks[n], m)
            => /\ results[n].match_status = "found"
               /\ fired[n] \in {{1}, {2}}

C13_Witness ==
    \E n, k \in 1..Len(results) : \E m, j \in 1..Len(walk) :
        /\ SuffixTrack(tracks[n], m)
        /\ SuffixedAlbum(tracks[n].release, walk[m].path[2])
        /\ fired[n] = {2}
        /\ SuffixTrack(tracks[k], j)
        /\ SuffixedAlbum(walk[j].path[2], tracks[k].release)
        /\ fired[k] = {1}
        /\ walk[j].path \in PathSet(results[k].matched_paths)

\* x is a numeric track prefix: digits, an optional dot, whitespace
IsTrackNumberPrefix(x) ==
    \E d \in 1..Len(x) :
        /\ \A k \in 1..d : IsDigit(Char(x, k))
        /\ \E w \in (d + 1)..Len(x) :
              /\ w = d + 1 \/ (w = d + 2 /\ Char(x, d + 1) = ".")
              /\ \A k \in w..Len(x) : IsSpace(Char(x, k))

\* the stem is a numeric track prefix followed by the title
PrefixedStem(stem, title) ==
    /\ title \notin {None, ""}
    /\ Len(stem) > Len(title)
    /\ From(stem, Len(stem) - Len(title) + 1) = title
    /\ IsTrackNumberPrefix(Slice(stem, 1, Len(stem) - Len(title)))

\* the track carries the folders of the audio file walk[m] and the title
\* that follows the track number in its stem
BareTitleTrack(track, m) ==
    /\ IsAudioFile(walk[m])
    /\ Len(walk[m].path) = 3
    /\ track.artist = walk[m].path[1]
    /\ track.release = walk[m].path[2]
    /\ PrefixedStem(Stem(walk[m].path[3]), track.song)

HasCandidates(item) == "candidate_paths" \in DOMAIN item

\* C15: a result item carries candidate_paths exactly when its
\* match_status is "missing" and include_candidates is true; a "found"
\* item, and every item of a run with include_candidates false, has none.
C15_CandidatesOnlyWhenMissing ==
    \A n \in 1..Len(results) :
        HasCandidates(results[n])
        <=> (results[n].match_status = "missing" /\ include_candidates)

C15_Witness ==
    /\ include_candidates
    /\ \E n, m \in 1..Len(results) :
          /\ results[n].match_status = "found"
          /\ ~HasCandidates(results[n])
          /\ results[m].match_status = "missing"
          /\ HasCandidates(results[m])
          /\ results[m].candidate_paths # <<>>

\* the path is registered under a key of the desired (artist, album) group
InGroup(p, d) ==
    \E k \in 1..Len(index) :
        /\ index[k].key[1] = Norm(d.artist)
        /\ index[k].key[2] = Norm(d.album)
        /\ p \in PathSet(index[k].paths)

\* the files of the desired (artist, album) group, each once, in the order
\* of their discovery
GroupFiles(d) ==
    SelectSeq([m \in 1..Len(walk) |-> walk[m].path], LAMBDA p : InGroup(p, d))

\* C16 (as claimed): the candidate_paths of a missing track are the files
\* of the desired (artist, album) group whose stem shares a token with the
\* title, by descending score, ties in discovery order, cut to
\* max_candidates entries.
C16_CandidatesRanked ==
    Resolving =>
        \A n \in 1..Len(results) :
            HasCandidates(results[n])
            => results[n].candidate_paths =
                  Take(SortByScore(Desired(tracks[n]).title,
                                   GroupFiles(Desired(tracks[n])),
                                   Cardinality(Tokens(Norm(Desired(tracks[n]).title)))),
                       max_candidates)

\* the walk has yielded no audio file
NoAudioFiles == \A m \in 1..Len(walk) : ~IsAudioFile(walk[m])

\* no file is indexed under the desired (normalized artist, normalized
\* album) pair of the track
NoGroupFor(track) ==
    \A k \in 1..Len(index) :
        <<index[k].key[1], index[k].key[2]>>
            # <<Norm(OrEmpty(track.artist)), Norm(OrEmpty(track.release))>>

\* C17: with no audio file under the root every track resolves "missing"
\* with empty matched_paths and, when candidates are searched, an empty
\* candidate_paths; and candidate_paths is empty whenever no file is
\* indexed under the desired (artist, album) pair.
C17_NoGroupNoCandidates ==
    Resolving =>
        \A n \in 1..Len(results) :
            /\ NoAudioFiles
                  => /\ results[n].match_status = "missing"
                     /\ results[n].matched_paths = <<>>
                     /\ include_candidates
                           => /\ HasCandidates(results[n])
                              /\ results[n].candidate_paths = <<>>
            /\ (HasCandidates(results[n]) /\ NoGroupFor(tracks[n]))
                  => results[n].candidate_paths = <<>>

C17_Witness ==
    /\ pc = "done"
    /\ walk # <<>> /\ NoAudioFiles
    /\ include_candidates
    /\ Len(results) = 2
    /\ \A n \in 1..Len(results) : results[n].candidate_paths = <<>>

\* the file name ends, in whatever case, with a supported extension
HasAudioExtension(name) ==
    \E ext \in AUDIO_EXTS :
        /\ Len(name) > Len(ext)
        /\ Lower(From(name, Len(name) - Len(ext) + 1)) = ext

\* the paths that results report
ReportedPaths ==
    UNION {PathSet(results[n].matched_paths) : n \in 1..Len(results)}
    \cup UNION {PathSet(results[n].candidate_paths) :
                  n \in {k \in 1..Len(results) : HasCandidates(results[k])}}

\* C18: every path in the index, in matched_paths or in candidate_paths is
\* a regular file the walk found under the root whose extension, compared
\* without regard to case, is a supported audio extension; and every such
\* file the walk found is in the index.
C18_OnlyAudioFilesIndexed ==
    /\ \A p \in IndexedPaths(index) \cup ReportedPaths :
          \E m \in 1..Len(walk) :
              /\ walk[m].path = p
              /\ walk[m].is_file
              /\ HasAudioExtension(FileName(p))
    /\ \A m \in 1..Len(walk) :
          (walk[m].is_file /\ HasAudioExtension(FileName(walk[m].path)))
          => walk[m].path \in IndexedPaths(index)

C18_Witness ==
    /\ \E m \in 1..Len(walk) :
          /\ FileName(walk[m].path) = "Tune.MP3"
          /\ walk[m].path \in IndexedPaths(index)
    /\ \E m \in 1..Len(walk) :
          /\ ~HasAudioExtension(FileName(walk[m].path))
          /\ walk[m].path \notin IndexedPaths(index)
    /\ \E n \in 1..Len(results) : results[n].matched_paths # <<>>

C20_NormIdempotent ==
    Len(norm_output) = 2 => norm_output[2] = norm_output[1]

\* C21 (as claimed): feat-stripping.  For a title S and a featured-artist
\* text X without a closing parenthesis or bracket, _norm(S + " (feat. X)"),
\* _norm(S + " [feat. X]"), _norm(S + " feat. X") and _norm(S + " feat X")
\* all equal _norm(S).
C21_FeatStripping ==
    \A form \in 1..Len(feat_output) : feat_output[form] = norm_output[1]

\* C22 (as claimed): case and diacritic invariance.  _norm gives the same
\* result for two texts that differ only in letter case or in diacritics
\* on Latin letters, here a text and the same text in lower case without
\* its diacritics.
C22_CaseDiacriticInvariance ==
    fold_output # <<>> => fold_output[1] = norm_output[1]

\* position of the first occurrence of p in paths
FirstIndex(paths, p) ==
    CHOOSE i \in 1..Len(paths) :
        paths[i] = p /\ \A j \in 1..(i - 1) : paths[j] # p

\* unique lists the paths of raw once each, by first occurrence
FirstOccurrences(unique, raw) ==
    /\ \A i, j \in 1..Len(unique) : unique[i] = unique[j] => i = j
    /\ PathSet(unique) = PathSet(raw)
    /\ \A i, j \in 1..Len(unique) :
           i < j => FirstIndex(raw, unique[i]) < FirstIndex(raw, unique[j])

\* C23: matched_paths of every result contains no path twice and keeps the
\* paths in the order of their first occurrence in what the strategies
\* collected, also when one file was collected several times.
C23_MatchedPathsDeduplicated ==
    Resolving =>
        \A n \in 1..Len(results) :
            FirstOccurrences(results[n].matched_paths,
                             Cascade(tracks[n], index).matches)

\* a strategy collected one file more than once, and another file too
C23_Witness ==
    /\ Resolving
    /\ \E n \in 1..Len(results) :
           /\ Len(results[n].matched_paths) >= 2
           /\ Len(Cascade(tracks[n], index).matches)
                  > Len(results[n].matched_paths)

\* the key is of the desired artist and of one of the two album variants
SameArtistAlbum(d, key) ==
    /\ key[1] = d.norm_artist
    /\ \/ key[2] = d.norm_album
       \/ d.norm_album_flexible # "" /\ key[2] = d.norm_album_flexible

\* both token sets have at least 2 tokens and the shared tokens are at
\* least two thirds of the smaller set
TwoThirdsOverlap(title_tokens, track_tokens) ==
    /\ Cardinality(title_tokens) >= 2
    /\ Cardinality(track_tokens) >= 2
    /\ 3 * Cardinality(title_tokens \cap track_tokens)
          >= 2 * Min(Cardinality(title_tokens), Cardinality(track_tokens))

\* the entry is one that strategy 4 accepts by a subset condition or by an
\* overlap of two thirds
AcceptedAsClaimed(d, entry, p) ==
    /\ p \in PathSet(entry.paths)
    /\ SameArtistAlbum(d, entry.key)
    /\ \/ TitleInTrack(Tokens(d.norm_title), Tokens(entry.key[3]))
       \/ TrackInTitle(Tokens(d.norm_title), Tokens(entry.key[3]))
       \/ TwoThirdsOverlap(Tokens(d.norm_title), Tokens(entry.key[3]))

\* C24 (as claimed): in strategy 4 an index entry of the same artist and
\* album variant that satisfies neither subset condition is accepted only
\* when both token sets have at least 2 tokens and the shared tokens are at
\* least two thirds of the smaller set; so every path strategy 4 returns
\* comes from an entry accepted in one of these three ways.
C24_OverlapTwoThirds ==
    Resolving =>
        \A n \in 1..Len(results) :
            fired[n] = {4} =>
                \A p \in PathSet(results[n].matched_paths) :
                    \E m \in 1..Len(index) :
                        AcceptedAsClaimed(Desired(tracks[n]), index[m], p)

\* none of the strategies 1 to 5 finds a path for d
NothingBefore6(d, idx) == \A k \in 1..5 : StrategyYield(k, d, idx) = <<>>

\* the index entries of the desired artist, by position
ArtistEntries(d, idx) == {m \in 1..Len(idx) : idx[m].key[1] = d.norm_artist}

\* the paths of the index entries at the positions ms
PathsOf(idx, ms) == UNION {PathSet(idx[m].paths) : m \in ms}

\* strategy 4's three conditions, taken without its album constraint
Strategy4Conditions(title_tokens, track_tokens) ==
    /\ title_tokens # {}
    /\ \/ TitleInTrack(title_tokens, track_tokens)
       \/ TrackInTitle(title_tokens, track_tokens)
       \/ TokenOverlap(title_tokens, track_tokens)

\* the same, the title-subset condition only for a title of 2 tokens or more
Strategy4ConditionsLongTitle(title_tokens, track_tokens) ==
    /\ title_tokens # {}
    /\ \/ /\ TitleInTrack(title_tokens, track_tokens)
          /\ Cardinality(title_tokens) >= 2
       \/ TrackInTitle(title_tokens, track_tokens)
       \/ TokenOverlap(title_tokens, track_tokens)

\* result n is what strategy 6 gives when it takes the entries of the
\* artist whose track equals the title and, when there is none, the entries
\* of the artist that Accepts takes
Strategy6Takes(n, Accepts(_, _)) ==
    LET Stage(d, exact, fuzzy) ==
            IF exact # {}
            THEN /\ fired[n] = {6}
                 /\ PathSet(results[n].matched_paths) = PathsOf(index, exact)
            ELSE IF fuzzy # {}
            THEN /\ fired[n] = {6}
                 /\ PathSet(results[n].matched_paths) = PathsOf(index, fuzzy)
            ELSE 6 \notin fired[n]
        Reached(d) ==
            Stage(d,
                  {m \in ArtistEntries(d, index) :
                      index[m].key[3] = d.norm_title},
                  {m \in ArtistEntries(d, index) :
                      Accepts(Tokens(d.norm_title), Tokens(index[m].key[3]))})
        Tried(d) == NothingBefore6(d, index) => Reached(d)
    IN  Tried(Desired(tracks[n]))

AliasEntries(idx, norm_va) == {m \in 1..Len(idx) : idx[m].key[1] = norm_va}

\* the entries of the alias that the album-constrained lookups read
AliasAlbumEntries(d, idx, norm_va) ==
    {m \in AliasEntries(idx, norm_va) :
        /\ idx[m].key[2] \in {d.norm_album, d.norm_album_flexible} \ {""}
        /\ idx[m].key[3] \in {d.norm_title, d.extracted_playlist_title}}

\* the entries of the alias with the desired track, whatever the album
AliasTrackEntries(d, idx, norm_va) ==
    {m \in AliasEntries(idx, norm_va) : idx[m].key[3] = d.norm_title}

\* the entries of the alias that one of the two subset conditions accepts
AliasTokenEntries(d, idx, norm_va) ==
    {m \in AliasEntries(idx, norm_va) :
        \/ /\ Tokens(d.norm_title) # {}
           /\ Cardinality(Tokens(d.norm_title)) >= 2
           /\ TitleInTrack(Tokens(d.norm_title), Tokens(idx[m].key[3]))
        \/ TrackInTitle(Tokens(d.norm_title), Tokens(idx[m].key[3]))}

\* what one alias yields: the album-constrained entries, else the entries
\* with the exact track, else the entries accepted by tokens
AliasYield(d, idx, norm_va) ==
    IF AliasAlbumEntries(d, idx, norm_va) # {}
    THEN PathsOf(idx, AliasAlbumEntries(d, idx, norm_va))
    ELSE IF AliasTrackEntries(d, idx, norm_va) # {}
    THEN PathsOf(idx, AliasTrackEntries(d, idx, norm_va))
    ELSE PathsOf(idx, AliasTokenEntries(d, idx, norm_va))

\* C26: strategy 7 walks the compilation aliases in their fixed order; for
\* each alias it first looks up the album-constrained keys and only if
\* those yield nothing scans that alias ignoring album (exact track, then
\* token-subset); it stops at the first alias that yields any match, so
\* matched_paths never mixes files from two different alias folders.
C26_FirstAliasOnly ==
    Resolving =>
        \A n \in 1..Len(results) :
            fired[n] = {7} =>
                \E a \in DOMAIN various_artists_names :
                    /\ \A b \in 1..(a - 1) :
                           AliasYield(Desired(tracks[n]), index,
                                      Norm(various_artists_names[b])) = {}
                    /\ PathSet(results[n].matched_paths)
                          = AliasYield(Desired(tracks[n]), index,
                                       Norm(various_artists_names[a]))
                    /\ \A p \in PathSet(results[n].matched_paths) :
                           Norm(ArtistDirName(p))
                               = Norm(various_artists_names[a])

\* strategy 7 found a track while two alias folders hold its title
C26_Witness ==
    /\ Resolving
    /\ \E n \in 1..Len(results) :
           /\ fired[n] = {7}
           /\ \E a, b \in DOMAIN various_artists_names :
                  /\ a < b
                  /\ AliasYield(Desired(tracks[n]), index,
                                Norm(various_artists_names[a])) # {}
                  /\ AliasYield(Desired(tracks[n]), index,
                                Norm(various_artists_names[b])) # {}

\* C30 (as claimed): candidate_paths of a missing track contains no file
\* path twice, also when the file is registered under several alias keys
\* of the desired (artist, album) pair.
C30_CandidatesDistinct ==
    Resolving =>
        \A n \in 1..Len(results) :
            HasCandidates(results[n]) =>
                \A i, j \in 1..Len(results[n].candidate_paths) :
                    results[n].candidate_paths[i]
                        = results[n].candidate_paths[j] => i = j

(***************************************************************************)
(* Properties of export_playlist_copies                                    *)
(***************************************************************************)
\* the export of track n chose among several matches
SeveralMatches(n) == Len(export_matches[n]) >= 2

\* C27 as stated: when the cascade of export returns several paths for a
\* track, the file that is copied has the highest token-overlap score of
\* them.
C27_HighestScoringChosen ==
    Resolving =>
        \A n \in 1..Len(results) :
            SeveralMatches(n) =>
                \A m \in 1..Len(export_matches[n]) :
                    ExportScore(results[n].song, export_matches[n][m])
                        <= ExportScore(results[n].song, results[n].source_path)

\* the best score among candidates and the first position that has it
BestScore(song, candidates) ==
    CHOOSE b \in {ExportScore(song, candidates[m]) : m \in 1..Len(candidates)} :
        \A m \in 1..Len(candidates) : ExportScore(song, candidates[m]) <= b

FirstOfBestScore(song, candidates) ==
    candidates[CHOOSE m \in 1..Len(candidates) :
        /\ ExportScore(song, candidates[m]) = BestScore(song, candidates)
        /\ \A k \in 1..(m - 1) :
               ExportScore(song, candidates[k]) # BestScore(song, candidates)]

\* C27 amended: the file that is copied is the first of the matches the
\* cascade returned, with match_type "exact"; the token-overlap score is
\* used only when the cascade returned nothing, and then picks the first
\* of the highest-scoring files of the desired artist+album group.
C27_FirstMatchChosen ==
    Resolving =>
        \A n \in 1..Len(results) :
            LET Fallback(candidates) ==
                    IF candidates = <<>>
                    THEN /\ results[n].source_path = None
                         /\ results[n].match_type = None
                    ELSE /\ results[n].source_path
                              = FirstOfBestScore(results[n].song, candidates)
                         /\ results[n].match_type = "candidate"
            IN  IF export_matches[n] # <<>>
                THEN /\ results[n].source_path = export_matches[n][1]
                     /\ results[n].match_type = "exact"
                ELSE Fallback(ExportCandidates(ExportDesired(tracks[n]),
                                               artist_album_to_paths))

\* a track with two matches of which the second has the higher score
C27_Witness ==
    /\ Resolving
    /\ \E n \in 1..Len(results) :
           /\ SeveralMatches(n)
           /\ ExportScore(results[n].song, export_matches[n][1])
                  < ExportScore(results[n].song, export_matches[n][2])
           /\ results[n].source_path = export_matches[n][1]

\* _build_index of match_playlist_to_library.py over the entries of a walk
BuildIndex(entries) ==
    LET acc[n \in 0..Len(entries)] ==
            IF n = 0 THEN <<>>
            ELSE IF IsAudioFile(entries[n])
                 THEN IndexFile(acc[n - 1], entries[n].path)
                 ELSE acc[n - 1]
    IN  acc[Len(entries)]

\* matched_paths of match_playlist_to_library for a track
MatchedPaths(track, idx) == Dedup(Cascade(track, idx).matches)

\* C28: for the same library and the same track, the cascade of export
\* returns a match exactly when match_playlist_to_library reports "found",
\* and the file export chooses is then one of its matched_paths.
C28_SameCascadeAsMatch ==
    Resolving =>
        \A n \in 1..Len(results) :
            LET Same(matched_paths) ==
                    /\ export_matches[n] # <<>> <=> matched_paths # <<>>
                    /\ export_matches[n] # <<>> =>
                           results[n].source_path \in PathSet(matched_paths)
            IN  Same(MatchedPaths(tracks[n], BuildIndex(walk)))

\* the item says the copy was skipped
Noted(item) == "note" \in DOMAIN item

\* the item's file was copied by shutil.copy2
Copied(item) ==
    \E k \in 1..Len(copies) :
        /\ copies[k].dest = item.copied_path
        /\ copies[k].source = item.source_path

\* C29: with overwrite false no file is copied onto a destination that
\* existed: the item of such a track holds the existing path and the note
\* "exists (not overwritten)", and copied counts the copies only; every
\* track is copied, missing or already there, and never two of them, so
\* copied + missing <= total_tracks.
C29_ExistingNeverOverwritten ==
    Resolving =>
        /\ ~overwrite =>
               \A k \in 1..Len(copies) : copies[k].dest \notin dest_existed
        /\ \A n \in 1..Len(results) :
               (~overwrite /\ results[n].copied_path \in dest_existed) =>
                   /\ Noted(results[n])
                   /\ results[n].note = "exists (not overwritten)"
        /\ copied = Len(copies)
        /\ \A n \in 1..Len(results) :
               /\ Copied(results[n]) \/ results[n].source_path = None
                      \/ Noted(results[n])
               /\ ~(Copied(results[n]) /\ results[n].source_path = None)
               /\ ~(Copied(results[n]) /\ Noted(results[n]))
               /\ ~(Noted(results[n]) /\ results[n].source_path = None)
        /\ missing = Cardinality({n \in 1..Len(results) :
                                      results[n].source_path = None})
        /\ copied + missing
               + Cardinality({n \in 1..Len(results) : Noted(results[n])})
               = Len(results)
        /\ pc = "done" =>
               /\ summary.copied = copied
               /\ summary.missing = missing
               /\ summary.total_tracks = Len(results)
               /\ summary.copied + summary.missing <= summary.total_tracks

\* a finished run without overwrite that skipped an existing file and
\* copied another
C29_Witness ==
    /\ pc = "done"
    /\ ~overwrite
    /\ copied >= 1
    /\ \E n \in 1..Len(results) :
           /\ Noted(results[n])
           /\ results[n].copied_path \in dest_existed
    /\ summary.copied + summary.missing < summary.total_tracks

====
